---- MODULE Spec2Model ----
(***************************************************************************)
(* Model of the exchange-connectivity core of tradebox:                    *)
(*   - RateLimiter           (api/rate-limiter.ts)                          *)
(*   - BybitWebSocket        (api/bybit-websocket.ts)                       *)
(*   - StrategyManager       (strategies/strategy-manager.ts)               *)
(*   - BybitApi              (api/bybit.ts)                                 *)
(*   - BotManager            (startBot, stopBot, pauseBot, handleBotError)  *)
(* Each component has its own specifications over the shared variables:    *)
(* Spec (rate limiter), SpecWS (socket client), SpecSM (strategy manager), *)
(* SpecApi (gateway), SpecBots (bot manager), and smaller ones for single  *)
(* claim families.                                                          *)
(* Times are in milliseconds.                                               *)
(***************************************************************************)
EXTENDS Integers, Sequences, FiniteSets, TLC

(***************************************************************************)
(* Bounds of the model.                                                    *)
(***************************************************************************)
\* the clock advances in steps of ClockStep ms, up to MaxTime
ClockStep == 1000
MaxTime == 3000
\* the clock bound of the backoff specification, long enough for the
\* backoff delay to reach its ceiling
MaxBackoffTime == 11000
\* the time a gateway call is followed for
MaxApiTime == 12000
\* the time the subscribe and unsubscribe calls of a client are followed for
MaxTopicsTime == 5000
\* constructor arguments of the RateLimiter under test
\* (new RateLimiter(maxHttpRequests, maxWebsocketRequests, windowMs))
maxHttpRequests == 1
maxWebsocketRequests == 1
windowMs == 2000

\* WebSocket objects that exist at the same time (a closed one frees its slot)
MaxSockets == 2
\* BybitWebSocket.maxReconnectAttempts (10 in the source)
maxReconnectAttempts == 3
\* handlers registered for one topic
MaxHandlers == 1
\* handlers per topic in the dispatch model
MaxRegistered == 3
\* calls of the socket client suspended on the rate limiter at the same time
MaxPending == 2
\* reconnect timers pending at the same time
MaxTimers == 1
\* ping intervals left running after this.pingInterval was overwritten
MaxLeakedPings == 1

(***************************************************************************)
(* Program constants.                                                      *)
(***************************************************************************)
\* BybitWebSocket.reconnectDelay
reconnectDelay == 5000
\* authenticate: expires = Date.now() + 10000
AuthExpiryMs == 10000
\* makeRequest(requestFunc, retries = 3)
retries == 3
\* syncServerTime: once in five minutes
SyncIntervalMs == 300000
\* "+1000ms" buffer added to every rate-limit wait
SafetyBufferMs == 1000
\* initial / reset value of backoffDelay
BackoffFloor == 1000
\* Math.min(backoffDelay * 2, 30000)
BackoffCeiling == 30000

\* the callers that use one RateLimiter concurrently
Callers == {1, 2}

VARIABLES
    now,                \* Date.now()
    httpRequests,       \* RateLimiter.httpRequests: timestamps, in push order
    websocketRequests,  \* RateLimiter.websocketRequests
    backoffDelay,       \* RateLimiter.backoffDelay
    pc,                 \* per caller: the call it is suspended in, if any
    admittedHttp,       \* history: timestamps at which waitForHttpSlot returned
    admittedWs,         \* history: timestamps at which waitForWebSocketSlot returned
    \* ---- StrategyManager ----
    smConfig,           \* config.openai.enabled, config.ml.enabled, config.strategies.*
    smMode,             \* the call in progress: "idle", "primary", "all" or "done"
    smTodo,             \* getPrimaryPrediction: adapters still to be awaited, in order
    smInflight,         \* getAllPredictions: promises not yet settled
    smSettled,          \* getAllPredictions: value of each settled promise
    smResults,          \* the `results` array of the call
    smDecision,         \* <<>> or <<the CombinedPrediction returned>>
    smThrew,            \* history: adapters whose request threw or timed out in this call
    \* ---- BybitWebSocket (its rateLimiter is the RateLimiter state above) ----
    wsConfig,           \* isPrivate, and whether config.bybit.apiKey/apiSecret are set
    sockets,            \* the state of the WebSocket objects connect() created, by slot
    wire,               \* history: the frames the latest step put on the wire
    ws,                 \* this.ws: a slot, or 0 for null
    isConnecting,       \* this.isConnecting
    reconnectAttempts,  \* this.reconnectAttempts
    pingInterval,       \* this.pingInterval is not null
    leakedPings,        \* intervals running that this.pingInterval no longer refers to
    timers,             \* pending reconnect timers: their delays, ascending
    subscriptions,      \* this.subscriptions
    messageHandlers,    \* this.messageHandlers: topic -> handlers, <<>> when absent
    wsPending,          \* calls suspended in `await this.rateLimiter.waitForWebSocketSlot()`
    delivered,          \* history: the handlers the latest step invoked
    received,           \* history: the inbound message the latest step processed
    \* ---- BybitApi (its rateLimiter is the RateLimiter state above) ----
    apiConfig,          \* whether config.bybit.apiKey is set; the key of this.exchange
    parentLimiter,      \* the rate limiter of the gateway this one was minted from
    apiCall,            \* the gateway operation in progress, "none" outside a call
    apiPc,              \* where makeRequest is suspended, and until when
    attempt,            \* the loop variable of makeRequest
    lastTimeSync,       \* this.lastTimeSync
    serverTimeOffset,   \* this.serverTimeOffset
    syncNow,            \* `now` of the syncServerTime in progress
    apiErrors,          \* history: the errors requestFunc threw in this call, in order
    apiExchange,        \* history: exchange methods requestFunc invoked in this call
    apiBackoffs,        \* history: handleRateLimitError calls of this call
    slotAttempt,        \* history: the attempt whose waitForHttpSlot() returned last, 0 if none
    fetchIssued,        \* history: when the last two fetchTime requests were issued
    syncPc,             \* concurrent operations: where each one is in makeRequest
    apiOutcome,         \* <<>> while the call runs; then what it returned or raised
    \* ---- BotManager ----
    activeBots,         \* the keys of this.activeBots
    intervals,          \* this.intervals: the timer handle kept for each bot, 0 if none
    liveIntervals,      \* the setInterval timers that are running: handle -> bot, "none" if free
    botStatus,          \* the status column of the bot's row in the database
    bmPc                \* the startBot / stopBot / pauseBot / handleBotError calls in flight

rlVars == <<now, httpRequests, websocketRequests, backoffDelay, pc,
            admittedHttp, admittedWs>>

smVars == <<smConfig, smMode, smTodo, smInflight, smSettled, smResults, smDecision,
            smThrew>>

wsVars == <<wsConfig, sockets, wire, ws, isConnecting, reconnectAttempts, pingInterval,
            leakedPings, timers, subscriptions, messageHandlers, wsPending, delivered, received>>

apiVars == <<apiConfig, parentLimiter, apiCall, apiPc, attempt, lastTimeSync, serverTimeOffset, syncNow,
             apiErrors, apiExchange, apiBackoffs, slotAttempt, fetchIssued, syncPc,
             apiOutcome>>

bmVars == <<activeBots, intervals, liveIntervals, botStatus, bmPc>>

vars == <<rlVars, smVars, wsVars, apiVars, bmVars>>

(***************************************************************************)
(* State after construction                                                *)
(***************************************************************************)
Idle == [op |-> "idle", wakeAt |-> 0]

\* new RateLimiter(...)
RLInitial ==
    /\ now = 0
    /\ httpRequests = <<>>
    /\ websocketRequests = <<>>
    /\ backoffDelay = BackoffFloor
    /\ pc = [c \in Callers |-> Idle]
    /\ admittedHttp = <<>>
    /\ admittedWs = <<>>

\* the adapters of a StrategyManager and the promises of getAllPredictions
Tasks == {"openai", "ml", "openai-variations"}

\* config.ts with no environment variable set, the strategies enabled
DefaultConfig ==
    [primary |-> "openai", enableComparison |-> FALSE,
     openaiEnabled |-> TRUE, mlEnabled |-> TRUE]

\* the values of PRIMARY_STRATEGY, ENABLE_STRATEGY_COMPARISON, OPENAI_ENABLED
\* and ML_ENABLED
Configs ==
    [primary : {"openai", "ml", "hybrid"}, enableComparison : BOOLEAN,
     openaiEnabled : BOOLEAN, mlEnabled : BOOLEAN]

\* new StrategyManager() under a configuration
SMInitial(cfg) ==
    /\ smConfig = cfg
    /\ smMode = "idle"
    /\ smTodo = <<>>
    /\ smInflight = {}
    /\ smSettled = [t \in Tasks |-> <<>>]
    /\ smResults = <<>>
    /\ smDecision = <<>>
    /\ smThrew = {}

\* the topics and the handlers the callers of the socket client use
Topics == {"tickers"}
Handlers == {"h1"}
\* the handlers of the dispatch model; "bad" throws whenever it is called
DispatchHandlers == {"h1", "h2", "bad"}
ThrowingHandlers == {"bad"}

\* new BybitWebSocket(false), credentials configured
PublicClient == [isPrivate |-> FALSE, hasKeys |-> TRUE]

\* new BybitWebSocket(isPrivate), with and without BYBIT_API_KEY / BYBIT_API_SECRET
ClientConfigs ==
    {PublicClient, [isPrivate |-> TRUE, hasKeys |-> TRUE], [isPrivate |-> TRUE, hasKeys |-> FALSE]}

\* new BybitWebSocket(...)
WSInitial(cfg) ==
    /\ wsConfig = cfg
    /\ sockets = [s \in 1..MaxSockets |-> "CLOSED"]
    /\ wire = <<>>
    /\ ws = 0
    /\ isConnecting = FALSE
    /\ reconnectAttempts = 0
    /\ pingInterval = FALSE
    /\ leakedPings = 0
    /\ timers = <<>>
    /\ subscriptions = {}
    /\ messageHandlers = [t \in Topics |-> <<>>]
    /\ wsPending = <<>>
    /\ delivered = <<>>
    /\ received = <<>>

\* config.bybit.apiKey, the key of the process-wide configuration, and the key
\* handed to createSubAccountInstance
ConfigApiKey == "parent"
SubAccountKey == "sub"

\* new RateLimiter(200, 50, 60000)
FreshLimiter == [httpRequests |-> <<>>, websocketRequests |-> <<>>, backoffDelay |-> BackoffFloor]

\* makeRequest is not running
ApiIdle == [at |-> "idle", wakeAt |-> 0]

\* new BybitApi(), with or without BYBIT_API_KEY.  lastTimeSync starts at 0 on
\* a clock that reads the time since 1970: the last sync is more than five
\* minutes ago.
SyncIdle == [at |-> "idle", syncNow |-> 0, wakeAt |-> 0]

ApiInitial(hasKeys) ==
    /\ apiConfig = [hasKeys |-> hasKeys,
                    exchangeKey |-> IF hasKeys THEN ConfigApiKey ELSE "none"]
    /\ parentLimiter = FreshLimiter
    /\ apiCall = "none"
    /\ apiPc = ApiIdle
    /\ attempt = 1
    /\ lastTimeSync = 0 - SyncIntervalMs
    /\ serverTimeOffset = 0
    /\ syncNow = 0
    /\ apiErrors = <<>>
    /\ apiExchange = 0
    /\ apiBackoffs = 0
    /\ slotAttempt = 0
    /\ fetchIssued = <<>>
    /\ syncPc = [c \in Callers |-> SyncIdle]
    /\ apiOutcome = <<>>

\* the bots that have a row in the database, and an id that has none
StoredBots == {"b1"}
UnknownBot == "b0"
BotIds == StoredBots \cup {UnknownBot}

\* timer handles the runtime can hand out, and the asynchronous calls in flight
MaxHandles == 3
BotCalls == {1, 2}

\* no BotManager call is running
BmIdle == [op |-> "idle", bot |-> "none", at |-> "idle"]

\* new BotManager(); createBot stores a bot with status 'paused'
BMInitial ==
    /\ activeBots = {}
    /\ intervals = [b \in StoredBots |-> 0]
    /\ liveIntervals = [h \in 1..MaxHandles |-> "none"]
    /\ botStatus = [b \in StoredBots |-> "paused"]
    /\ bmPc = [p \in BotCalls |-> BmIdle]

(***************************************************************************)
(* Helpers                                                                 *)
(***************************************************************************)
Min(a, b) == IF a < b THEN a ELSE b
Max(a, b) == IF a > b THEN a ELSE b

RECURSIVE SeqMin(_)
\* Math.min(...seq) of a non-empty sequence
SeqMin(s) == IF Len(s) = 1 THEN s[1] ELSE Min(s[1], SeqMin(Tail(s)))

\* s.slice(-n)
LastN(s, n) == IF Len(s) <= n THEN s ELSE SubSeq(s, Len(s) - n + 1, Len(s))

(***************************************************************************)
(* RateLimiter                                                             *)
(***************************************************************************)
\* requests.filter(timestamp => now - timestamp < this.windowMs)
Purge(reqs, t) == SelectSeq(reqs, LAMBDA ts : t - ts < windowMs)

SlotFullOffByOne(reqs, max) == Len(reqs) > max

\* if (requests.length >= max)
SlotFull(reqs, max) == Len(reqs) >= max

WaitTimeNoBuffer(reqs, t) == windowMs - (t - SeqMin(reqs))

\* windowMs - (now - oldestRequest) + 1000
WaitTime(reqs, t) == windowMs - (t - SeqMin(reqs)) + SafetyBufferMs

\* One pass through the body of waitForHttpSlot, from `const now = Date.now()`
\* to either the push (the call returns) or the setTimeout (the call suspends).
HttpAttempt(c) ==
    LET kept == Purge(httpRequests, now) IN
    IF SlotFull(kept, maxHttpRequests)
    THEN /\ httpRequests' = kept
         /\ pc' = [pc EXCEPT ![c] = [op |-> "waitHttp", wakeAt |-> now + WaitTime(kept, now)]]
         /\ UNCHANGED admittedHttp
    ELSE /\ httpRequests' = Append(kept, now)
         /\ pc' = [pc EXCEPT ![c] = Idle]
         /\ admittedHttp' = Append(Purge(admittedHttp, now), now)

\* a caller enters waitForHttpSlot()
WaitForHttpSlot(c) ==
    /\ pc[c].op = "idle"
    /\ HttpAttempt(c)
    /\ UNCHANGED <<now, websocketRequests, backoffDelay, admittedWs>>
    /\ UNCHANGED <<smVars, wsVars, apiVars, bmVars>>

\* the setTimeout of a suspended waitForHttpSlot fires: `return this.waitForHttpSlot()`
ResumeHttpSlot(c) ==
    /\ pc[c].op = "waitHttp"
    /\ now >= pc[c].wakeAt
    /\ HttpAttempt(c)
    /\ UNCHANGED <<now, websocketRequests, backoffDelay, admittedWs>>
    /\ UNCHANGED <<smVars, wsVars, apiVars, bmVars>>

WsAttemptCountsHttp(c) ==
    LET kept == Purge(websocketRequests, now)
        both == kept \o Purge(httpRequests, now) IN
    IF SlotFull(both, maxWebsocketRequests)
    THEN /\ websocketRequests' = kept
         /\ pc' = [pc EXCEPT ![c] = [op |-> "waitWs", wakeAt |-> now + WaitTime(both, now)]]
         /\ UNCHANGED admittedWs
    ELSE /\ websocketRequests' = Append(kept, now)
         /\ pc' = [pc EXCEPT ![c] = Idle]
         /\ admittedWs' = Append(Purge(admittedWs, now), now)

\* One pass through the body of waitForWebSocketSlot
WsAttempt(c) ==
    LET kept == Purge(websocketRequests, now) IN
    IF SlotFull(kept, maxWebsocketRequests)
    THEN /\ websocketRequests' = kept
         /\ pc' = [pc EXCEPT ![c] = [op |-> "waitWs", wakeAt |-> now + WaitTime(kept, now)]]
         /\ UNCHANGED admittedWs
    ELSE /\ websocketRequests' = Append(kept, now)
         /\ pc' = [pc EXCEPT ![c] = Idle]
         /\ admittedWs' = Append(Purge(admittedWs, now), now)

WaitForWebSocketSlot(c) ==
    /\ pc[c].op = "idle"
    /\ WsAttempt(c)
    /\ UNCHANGED <<now, httpRequests, backoffDelay, admittedHttp>>
    /\ UNCHANGED <<smVars, wsVars, apiVars, bmVars>>

ResumeWebSocketSlot(c) ==
    /\ pc[c].op = "waitWs"
    /\ now >= pc[c].wakeAt
    /\ WsAttempt(c)
    /\ UNCHANGED <<now, httpRequests, backoffDelay, admittedHttp>>
    /\ UNCHANGED <<smVars, wsVars, apiVars, bmVars>>

NextBackoffWraps(d) == IF d * 2 > BackoffCeiling THEN BackoffFloor ELSE d * 2

\* Math.min(this.backoffDelay * 2, 30000)
NextBackoff(d) == Min(d * 2, BackoffCeiling)

\* handleRateLimitError(), up to the await: sleep for the current backoffDelay
HandleRateLimitError(c) ==
    /\ pc[c].op = "idle"
    /\ pc' = [pc EXCEPT ![c] = [op |-> "backoff", wakeAt |-> now + backoffDelay]]
    /\ UNCHANGED <<now, httpRequests, websocketRequests, backoffDelay,
                   admittedHttp, admittedWs>>
    /\ UNCHANGED <<smVars, wsVars, apiVars, bmVars>>

\* handleRateLimitError(), after the await: the delay is read again and doubled
ResumeRateLimitError(c) ==
    /\ pc[c].op = "backoff"
    /\ now >= pc[c].wakeAt
    /\ backoffDelay' = NextBackoff(backoffDelay)
    /\ pc' = [pc EXCEPT ![c] = Idle]
    /\ UNCHANGED <<now, httpRequests, websocketRequests,
                   admittedHttp, admittedWs>>
    /\ UNCHANGED <<smVars, wsVars, apiVars, bmVars>>

\* resetBackoff()
ResetBackoff ==
    /\ backoffDelay' = BackoffFloor
    /\ UNCHANGED <<now, httpRequests, websocketRequests, pc,
                   admittedHttp, admittedWs>>
    /\ UNCHANGED <<smVars, wsVars, apiVars, bmVars>>

\* getHttpRequestsCount(): purges, then returns the length
GetHttpRequestsCount ==
    /\ httpRequests' = Purge(httpRequests, now)
    /\ UNCHANGED <<now, websocketRequests, backoffDelay, pc, admittedHttp, admittedWs>>
    /\ UNCHANGED <<smVars, wsVars, apiVars, bmVars>>

\* getWebSocketRequestsCount()
GetWebSocketRequestsCount ==
    /\ websocketRequests' = Purge(websocketRequests, now)
    /\ UNCHANGED <<now, httpRequests, backoffDelay, pc, admittedHttp, admittedWs>>
    /\ UNCHANGED <<smVars, wsVars, apiVars, bmVars>>

\* the body of recordWebSocketActivity(), as a function of the list
RecordActivity(reqs, t) ==
    LET pushed == Append(reqs, t) IN
    IF Len(pushed) > maxWebsocketRequests * 2
    THEN LastN(pushed, maxWebsocketRequests)
    ELSE pushed

\* recordWebSocketActivity()
RecordWebSocketActivity ==
    /\ websocketRequests' = RecordActivity(websocketRequests, now)
    /\ UNCHANGED <<now, httpRequests, backoffDelay, pc, admittedHttp, admittedWs>>
    /\ UNCHANGED <<smVars, wsVars, apiVars, bmVars>>

ResetKeepsBackoff ==
    /\ httpRequests' = <<>>
    /\ websocketRequests' = <<>>
    /\ backoffDelay' = backoffDelay
    /\ admittedHttp' = <<>>
    /\ admittedWs' = <<>>
    /\ UNCHANGED <<now, pc>>
    /\ UNCHANGED <<smVars, wsVars, apiVars, bmVars>>

\* reset(): both windows emptied, the backoff back at its floor.
\* The admission histories restart with the limiter.
Reset ==
    /\ httpRequests' = <<>>
    /\ websocketRequests' = <<>>
    /\ backoffDelay' = BackoffFloor
    /\ admittedHttp' = <<>>
    /\ admittedWs' = <<>>
    /\ UNCHANGED <<now, pc>>
    /\ UNCHANGED <<smVars, wsVars, apiVars, bmVars>>

\* time passes; the histories keep the admissions of the trailing window
Tick ==
    /\ now + ClockStep <= MaxTime
    /\ now' = now + ClockStep
    /\ admittedHttp' = Purge(admittedHttp, now')
    /\ admittedWs' = Purge(admittedWs, now')
    /\ UNCHANGED <<httpRequests, websocketRequests, backoffDelay, pc>>
    /\ UNCHANGED <<smVars, wsVars, apiVars, bmVars>>

Init ==
    /\ RLInitial
    /\ BMInitial
    /\ SMInitial(DefaultConfig)
    /\ WSInitial(PublicClient)
    /\ ApiInitial(TRUE)

Next ==
    \/ \E c \in Callers : WaitForHttpSlot(c)
    \/ \E c \in Callers : ResumeHttpSlot(c)
    \/ \E c \in Callers : WaitForWebSocketSlot(c)
    \/ \E c \in Callers : ResumeWebSocketSlot(c)
    \/ \E c \in Callers : HandleRateLimitError(c)
    \/ \E c \in Callers : ResumeRateLimitError(c)
    \/ ResetBackoff
    \/ GetHttpRequestsCount
    \/ GetWebSocketRequestsCount
    \/ RecordWebSocketActivity
    \/ Reset
    \/ Tick

Spec == Init /\ [][Next]_vars

\* The clock read relative to the present instant, for runs of unbounded
\* length: as ClockStep milliseconds pass, every recorded timestamp and every
\* timer deadline moves ClockStep milliseconds towards the past and `now` stays
\* the origin.  The limiter reads the clock only in differences (now -
\* timestamp, and setTimeout delays); a timestamp of age windowMs or more is
\* purged whatever its age, a deadline in the past is due whatever its age.
Elapse(reqs) == [i \in DOMAIN reqs |-> Max(reqs[i] - ClockStep, now - windowMs)]

TickLive ==
    /\ httpRequests' = Elapse(httpRequests)
    /\ websocketRequests' = Elapse(websocketRequests)
    /\ pc' = [c \in Callers |-> [pc[c] EXCEPT !.wakeAt = Max(@ - ClockStep, now)]]
    /\ admittedHttp' = Purge(Elapse(admittedHttp), now)
    /\ admittedWs' = Purge(Elapse(admittedWs), now)
    /\ UNCHANGED <<now, backoffDelay>>
    /\ UNCHANGED <<smVars, wsVars, apiVars, bmVars>>

\* Callers that come and go for ever on both channels, while time advances
NextLive ==
    \/ \E c \in Callers : WaitForHttpSlot(c)
    \/ \E c \in Callers : ResumeHttpSlot(c)
    \/ \E c \in Callers : WaitForWebSocketSlot(c)
    \/ \E c \in Callers : ResumeWebSocketSlot(c)
    \/ TickLive

\* Time advances, and a timer that is due fires (the event loop runs every
\* due setTimeout callback); when a caller calls is left open.
SpecLive ==
    /\ Init
    /\ [][NextLive]_vars
    /\ WF_vars(TickLive)
    /\ \A c \in Callers : WF_vars(ResumeHttpSlot(c)) /\ WF_vars(ResumeWebSocketSlot(c))

\* time passes while callers sleep in handleRateLimitError
TickBackoff ==
    /\ now + ClockStep <= MaxBackoffTime
    /\ now' = now + ClockStep
    /\ UNCHANGED <<httpRequests, websocketRequests, backoffDelay, pc,
                   admittedHttp, admittedWs>>
    /\ UNCHANGED <<smVars, wsVars, apiVars, bmVars>>

\* The backoff state alone: failures, successes and resets of one RateLimiter
NextBackoffOnly ==
    \/ \E c \in Callers : HandleRateLimitError(c)
    \/ \E c \in Callers : ResumeRateLimitError(c)
    \/ ResetBackoff
    \/ Reset
    \/ TickBackoff

SpecBackoff == Init /\ [][NextBackoffOnly]_vars

(***************************************************************************)
(* Claims about the RateLimiter                                            *)
(***************************************************************************)
\* the admissions of a history that lie in the trailing window (t - windowMs, t]
InWindow(hist, t) == {i \in DOMAIN hist : hist[i] <= t /\ t - hist[i] < windowMs}

\* C1: under any interleaving of concurrent waitForHttpSlot (resp.
\* waitForWebSocketSlot) callers, the number of calls admitted on a channel in
\* the trailing window of windowMs milliseconds never exceeds the channel's
\* maximum.  Checked in every reachable state, hence for the window that ends
\* at every instant.
C1_AdmissionBound ==
    /\ Cardinality(InWindow(admittedHttp, now)) <= maxHttpRequests
    /\ Cardinality(InWindow(admittedWs, now)) <= maxWebsocketRequests

\* a caller is suspended on a full HTTP window while another one, which had
\* been suspended on the WebSocket channel, has just been admitted there
C1_Witness ==
    /\ \E c \in Callers : pc[c].op = "waitHttp"
    /\ Cardinality(InWindow(admittedHttp, now)) = maxHttpRequests
    /\ now >= windowMs + SafetyBufferMs
    /\ Cardinality(InWindow(admittedWs, now)) = maxWebsocketRequests
    /\ \E i \in DOMAIN admittedWs : admittedWs[i] = now

\* C5: a step of handleRateLimitError never lowers the backoff delay: it
\* doubles it, up to the ceiling of 30000 ms; the delay is lowered only by
\* resetBackoff (or by the full reset), and after resetBackoff it is 1000 ms.
C5_BackoffMonotone ==
    [][ /\ (\E c \in Callers : ResumeRateLimitError(c)) =>
              /\ backoffDelay' >= backoffDelay
              /\ backoffDelay' = IF 2 * backoffDelay > 30000 THEN 30000
                                 ELSE 2 * backoffDelay
        /\ ResetBackoff => backoffDelay' = 1000
        /\ backoffDelay' < backoffDelay => (ResetBackoff \/ Reset)
      ]_vars

\* the delay has reached the ceiling through consecutive failures
C5_Witness == backoffDelay = BackoffCeiling

(***************************************************************************)
(* Exact arithmetic on confidences: a number is <<numerator, denominator>>  *)
(* in lowest terms, denominator > 0.                                        *)
(***************************************************************************)
RECURSIVE GCD(_, _)
GCD(a, b) == IF b = 0 THEN a ELSE GCD(b, a % b)

Abs(a) == IF a < 0 THEN -a ELSE a

Norm(x) ==
    LET g == GCD(Abs(x[1]), x[2]) IN
    IF x[1] = 0 THEN <<0, 1>> ELSE <<x[1] \div g, x[2] \div g>>

RAdd(x, y) == Norm(<<x[1] * y[2] + y[1] * x[2], x[2] * y[2]>>)
RDivInt(x, k) == Norm(<<x[1], x[2] * k>>)
RLess(x, y) == x[1] * y[2] < y[1] * x[2]
RMin(x, y) == IF RLess(x, y) THEN x ELSE y
RMax(x, y) == IF RLess(x, y) THEN y ELSE x
Zero == <<0, 1>>
One == <<1, 1>>

RECURSIVE RSum(_)
\* confidences.reduce((sum, c) => sum + c, 0)
RSum(cs) == IF cs = <<>> THEN Zero ELSE RAdd(cs[1], RSum(Tail(cs)))

\* xs.filter(pred).length
CountOf(xs, x) == Cardinality({i \in DOMAIN xs : xs[i] = x})

(***************************************************************************)
(* Strategy adapters                                                       *)
(***************************************************************************)
Signals == {"BUY", "SELL", "HOLD"}

\* config.strategies.confidenceThreshold: CONFIDENCE_THRESHOLD || '0.51'
confidenceThreshold == <<51, 100>>

\* What one chat-completion request of the LLM adapter can come to: the request
\* throws (network error, abort after the 60 s timeout), the completion has no
\* content, or it carries a JSON object.  A missing signal is "undefined"; a
\* missing confidence is falsy like 0.
LLMRawSignals == Signals \cup {"undefined"}
LLMRawConfidences == {<<-1, 2>>, Zero, <<2, 5>>, <<9, 10>>, <<3, 2>>}
LLMOutcomes ==
    {[kind |-> "throw", signal |-> "undefined", confidence |-> Zero],
     [kind |-> "empty", signal |-> "undefined", confidence |-> Zero]}
    \cup [kind : {"json"}, signal : LLMRawSignals, confidence : LLMRawConfidences]

\* the outcomes drawn for each of the three requests of the variation ensemble
VariationOutcomes ==
    {[kind |-> "throw", signal |-> "undefined", confidence |-> Zero]}
    \cup [kind : {"json"}, signal : Signals, confidence : {<<2, 5>>, <<9, 10>>, <<3, 2>>}]

\* What one request to the ML service can come to: axios throws (error status,
\* 30 s timeout) or the service answers with a prediction.
MLConfidences == {<<2, 5>>, <<4, 5>>}
MLOutcomes ==
    {[kind |-> "throw", signal |-> "HOLD", confidence |-> Zero]}
    \cup [kind : {"data"}, signal : Signals, confidence : MLConfidences]

Prediction(sig, conf, why) == [signal |-> sig, confidence |-> conf, reasoning |-> why]

\* StrategyManager.getErrorPrediction(message)
getErrorPrediction(message) == Prediction("HOLD", Zero, <<message>>)

\* OpenAITradingStrategy.getPrediction: never throws. A request that throws or
\* an empty completion ends in the catch block, which RETURNS the fallback.
OpenAIGetPrediction(raw) ==
    IF raw.kind = "json"
    THEN Prediction(IF raw.signal = "undefined" THEN "HOLD" ELSE raw.signal,
                    RMax(Zero, RMin(One, raw.confidence)),
                    <<"openai reasoning">>)
    ELSE Prediction("HOLD", Zero, <<"analysis error">>)

\* does MLTradingStrategy.getPrediction throw?
MLThrows(raw) == raw.kind = "throw"

\* MLTradingStrategy.getPrediction when it returns: response.data
MLGetPrediction(raw) == Prediction(raw.signal, raw.confidence, <<"ml reasoning">>)

Result(name, pred, ok) == [strategy |-> name, prediction |-> pred, success |-> ok]

\* the promise of an execute... method rejects instead of resolving to a result
Rejection(name) == [strategy |-> name, rejected |-> TRUE]
IsRejection(r) == "rejected" \in DOMAIN r

\* StrategyManager.executeOpenAIStrategy: the catch block is reached only if
\* getPrediction throws, which it never does
executeOpenAIStrategy(raw) == Result("openai", OpenAIGetPrediction(raw), TRUE)

executeMLStrategyNoCatch(raw) ==
    IF MLThrows(raw)
    THEN Rejection("ml")
    ELSE Result("ml", MLGetPrediction(raw), TRUE)

\* StrategyManager.executeMLStrategy
executeMLStrategy(raw) ==
    IF MLThrows(raw)
    THEN Result("ml", getErrorPrediction("ML strategy failed"), FALSE)
    ELSE Result("ml", MLGetPrediction(raw), TRUE)

\* StrategyManager.getMostCommonSignal: Object.entries(counts) is BUY, SELL,
\* HOLD; reduce keeps the left entry only if its count is strictly greater
getMostCommonSignal(signals) ==
    LET count(x) == CountOf(signals, x)
        first == IF count("BUY") > count("SELL") THEN "BUY" ELSE "SELL"
    IN IF count(first) > count("HOLD") THEN first ELSE "HOLD"

\* OpenAITradingStrategy.getMultiplePredictions: three variations, each a
\* getPrediction of its own; none rejects
getMultiplePredictions(raws) == [i \in DOMAIN raws |-> OpenAIGetPrediction(raws[i])]

\* StrategyManager.executeOpenAIVariations
executeOpenAIVariations(raws) ==
    LET predictions == getMultiplePredictions(raws)
        avgConfidence ==
            RDivInt(RSum([i \in DOMAIN predictions |-> predictions[i].confidence]),
                    Len(predictions))
        mostCommonSignal ==
            getMostCommonSignal([i \in DOMAIN predictions |-> predictions[i].signal])
    IN Result("openai-variations",
              Prediction(mostCommonSignal, avgConfidence, <<"consensus of variations">>),
              TRUE)

(***************************************************************************)
(* StrategyManager: the merge                                              *)
(***************************************************************************)
SignalsOf(results) == [i \in DOMAIN results |-> results[i].prediction.signal]
ConfidencesOf(results) == [i \in DOMAIN results |-> results[i].prediction.confidence]

SuccessfulNoFilter(results) == results

\* results.filter(r => r.success)
Successful(results) == SelectSeq(results, LAMBDA r : r.success)

\* a tie goes to the signal of the first opinion instead of HOLD
calculateConsensusFirstWins(results) ==
    LET signals == SignalsOf(results)
        buyCount == CountOf(signals, "BUY")
        sellCount == CountOf(signals, "SELL")
        holdCount == CountOf(signals, "HOLD")
    IN [signal |-> IF buyCount > sellCount /\ buyCount > holdCount THEN "BUY"
                   ELSE IF sellCount > buyCount /\ sellCount > holdCount THEN "SELL"
                   ELSE IF holdCount > buyCount /\ holdCount > sellCount THEN "HOLD"
                   ELSE signals[1],
        confidence |-> RDivInt(RSum(ConfidencesOf(results)), Len(results)),
        reasoning |-> <<"consensus">>]

\* the mean is taken over the three configured adapters, not over the results
calculateConsensusFixedDivisor(results) ==
    LET signals == SignalsOf(results)
        buyCount == CountOf(signals, "BUY")
        sellCount == CountOf(signals, "SELL")
        holdCount == CountOf(signals, "HOLD")
    IN [signal |-> IF buyCount > sellCount /\ buyCount > holdCount THEN "BUY"
                   ELSE IF sellCount > buyCount /\ sellCount > holdCount THEN "SELL"
                   ELSE "HOLD",
        confidence |-> RDivInt(RSum(ConfidencesOf(results)), 3),
        reasoning |-> <<"consensus">>]

\* plurality: the first of BUY, SELL, HOLD with the maximum count wins
calculateConsensusPlurality(results) ==
    LET signals == SignalsOf(results)
        buyCount == CountOf(signals, "BUY")
        sellCount == CountOf(signals, "SELL")
        holdCount == CountOf(signals, "HOLD")
    IN [signal |-> IF buyCount >= sellCount /\ buyCount >= holdCount THEN "BUY"
                   ELSE IF sellCount >= holdCount THEN "SELL"
                   ELSE "HOLD",
        confidence |-> RDivInt(RSum(ConfidencesOf(results)), Len(results)),
        reasoning |-> <<"consensus">>]

\* StrategyManager.calculateConsensus (results is not empty)
calculateConsensus(results) ==
    LET signals == SignalsOf(results)
        buyCount == CountOf(signals, "BUY")
        sellCount == CountOf(signals, "SELL")
        holdCount == CountOf(signals, "HOLD")
    IN [signal |-> IF buyCount > sellCount /\ buyCount > holdCount THEN "BUY"
                   ELSE IF sellCount > buyCount /\ sellCount > holdCount THEN "SELL"
                   ELSE "HOLD",
        confidence |-> RDivInt(RSum(ConfidencesOf(results)), Len(results)),
        reasoning |-> <<"consensus">>]

\* the tally counts every result that is not a BUY or a SELL as a HOLD
calculateConsensusStatsRestIsHold(results) ==
    LET signals == SignalsOf(results) IN
    [buyCount |-> CountOf(signals, "BUY"),
     sellCount |-> CountOf(signals, "SELL"),
     holdCount |-> 3 - CountOf(signals, "BUY") - CountOf(signals, "SELL"),
     avgConfidence |-> RDivInt(RSum(ConfidencesOf(results)), Len(results))]

\* StrategyManager.calculateConsensusStats (results is not empty)
calculateConsensusStats(results) ==
    LET signals == SignalsOf(results) IN
    [buyCount |-> CountOf(signals, "BUY"),
     sellCount |-> CountOf(signals, "SELL"),
     holdCount |-> CountOf(signals, "HOLD"),
     avgConfidence |-> RDivInt(RSum(ConfidencesOf(results)), Len(results))]

\* successfulResults.find(r => r.strategy === primaryStrategy): its index, or 0
FindPrimary(results, primaryStrategy) ==
    LET hits == {i \in DOMAIN results : results[i].strategy = primaryStrategy} IN
    IF hits = {} THEN 0 ELSE CHOOSE i \in hits : \A j \in hits : i <= j

\* the threshold parsed to NaN: no confidence compares below it
BelowThresholdNaN(confidence) == FALSE

\* if (finalConfidence < config.strategies.confidenceThreshold)
BelowThreshold(confidence) == RLess(confidence, confidenceThreshold)

\* the suffix ` (Confidence ... below threshold ...)`
ThresholdSuffix == "(Confidence below threshold)"

\* StrategyManager.combinePredictions.  The optional `consensus` field is <<>>
\* when absent and <<stats>> when present.
combinePredictions(results, primaryStrategy) ==
    LET successfulResults == Successful(results)
        p == FindPrimary(successfulResults, primaryStrategy)
        chosen == IF p # 0 THEN successfulResults[p].prediction
                  ELSE calculateConsensus(successfulResults)
    IN
    IF Len(successfulResults) = 0
    THEN [primaryStrategy |-> primaryStrategy,
          finalSignal |-> "HOLD",
          confidence |-> Zero,
          reasoning |-> <<"all strategies returned errors">>,
          strategyResults |-> results,
          consensus |-> <<>>]
    ELSE [primaryStrategy |-> primaryStrategy,
          finalSignal |-> IF BelowThreshold(chosen.confidence) THEN "HOLD"
                          ELSE chosen.signal,
          confidence |-> chosen.confidence,
          reasoning |-> IF BelowThreshold(chosen.confidence)
                        THEN Append(chosen.reasoning, ThresholdSuffix)
                        ELSE chosen.reasoning,
          strategyResults |-> results,
          consensus |-> <<calculateConsensusStats(successfulResults)>>]

(***************************************************************************)
(* StrategyManager: the two entry points                                   *)
(***************************************************************************)
\* the adapter the constructor created for a name, if any
Configured(name) ==
    \/ name = "openai" /\ smConfig.openaiEnabled
    \/ name = "ml" /\ smConfig.mlEnabled

\* getPrimaryPrediction awaits its adapters one after the other: the primary
\* one, then (getComparisonResults) openai and ml unless excluded
PrimaryOrder ==
    SelectSeq(<<"openai", "ml">>,
              LAMBDA n : n = smConfig.primary /\ Configured(n))
    \o (IF smConfig.enableComparison
        THEN SelectSeq(<<"openai", "ml">>,
                       LAMBDA n : n # smConfig.primary /\ Configured(n))
        ELSE <<>>)

\* the adapters whose request has thrown, after adapter t met outcome raw
Threw(t, raw) == IF raw.kind = "throw" THEN smThrew \cup {t} ELSE smThrew

\* getPrimaryPrediction(marketData) is called
GetPrimaryPrediction ==
    /\ smMode = "idle"
    /\ smMode' = "primary"
    /\ smTodo' = PrimaryOrder
    /\ smResults' = <<>>
    /\ smThrew' = {}
    /\ UNCHANGED <<smConfig, smInflight, smSettled, smDecision>>
    /\ UNCHANGED <<rlVars, wsVars, apiVars, bmVars>>

\* `await` of a promise of getPrimaryPrediction: a result is pushed, a
\* rejection leaves the async function, which then rejects
Awaited(r) ==
    IF IsRejection(r)
    THEN /\ smMode' = "rejected"
         /\ UNCHANGED <<smResults, smTodo>>
    ELSE /\ smResults' = Append(smResults, r)
         /\ smTodo' = Tail(smTodo)
         /\ UNCHANGED smMode

\* the awaited executeOpenAIStrategy of getPrimaryPrediction settles
PrimaryAwaitOpenAI(raw) ==
    /\ smMode = "primary"
    /\ smTodo # <<>> /\ Head(smTodo) = "openai"
    /\ Awaited(executeOpenAIStrategy(raw))
    /\ smThrew' = Threw("openai", raw)
    /\ UNCHANGED <<smConfig, smInflight, smSettled, smDecision>>
    /\ UNCHANGED <<rlVars, wsVars, apiVars, bmVars>>

\* the awaited executeMLStrategy of getPrimaryPrediction settles
PrimaryAwaitML(raw) ==
    /\ smMode = "primary"
    /\ smTodo # <<>> /\ Head(smTodo) = "ml"
    /\ Awaited(executeMLStrategy(raw))
    /\ smThrew' = Threw("ml", raw)
    /\ UNCHANGED <<smConfig, smInflight, smSettled, smDecision>>
    /\ UNCHANGED <<rlVars, wsVars, apiVars, bmVars>>

\* return this.combinePredictions(results, this.primaryStrategy)
PrimaryReturn ==
    /\ smMode = "primary"
    /\ smTodo = <<>>
    /\ smDecision' = <<combinePredictions(smResults, smConfig.primary)>>
    /\ smMode' = "done"
    /\ UNCHANGED <<smConfig, smTodo, smInflight, smSettled, smResults, smThrew>>
    /\ UNCHANGED <<rlVars, wsVars, apiVars, bmVars>>

\* the promises getAllPredictions creates, in the order it pushes them
AllPromises ==
    SelectSeq(<<"openai", "ml", "openai-variations">>,
              LAMBDA t : IF t = "ml" THEN smConfig.mlEnabled ELSE smConfig.openaiEnabled)

\* getAllPredictions(marketData) is called: every adapter is started
GetAllPredictions ==
    /\ smMode = "idle"
    /\ smMode' = "all"
    /\ smInflight' = {AllPromises[i] : i \in DOMAIN AllPromises}
    /\ smSettled' = [t \in Tasks |-> <<>>]
    /\ smResults' = <<>>
    /\ smThrew' = {}
    /\ UNCHANGED <<smConfig, smTodo, smDecision>>
    /\ UNCHANGED <<rlVars, wsVars, apiVars, bmVars>>

\* one promise under Promise.allSettled settles; only a fulfilled one leaves a value
Settle(t, result) ==
    /\ smMode = "all"
    /\ t \in smInflight
    /\ smInflight' = smInflight \ {t}
    /\ smSettled' = [smSettled EXCEPT ![t] = IF IsRejection(result) THEN <<>> ELSE <<result>>]
    /\ UNCHANGED <<smConfig, smMode, smTodo, smResults, smDecision>>
    /\ UNCHANGED <<rlVars, wsVars, apiVars, bmVars>>

\* the promises of getAllPredictions settle in any order
AllSettleOpenAI(raw) ==
    /\ Settle("openai", executeOpenAIStrategy(raw))
    /\ smThrew' = Threw("openai", raw)

AllSettleML(raw) ==
    /\ Settle("ml", executeMLStrategy(raw))
    /\ smThrew' = Threw("ml", raw)

AllSettleVariations(raws) ==
    /\ Settle("openai-variations", executeOpenAIVariations(raws))
    /\ UNCHANGED smThrew

RECURSIVE Flatten(_)
Flatten(ss) == IF ss = <<>> THEN <<>> ELSE Head(ss) \o Flatten(Tail(ss))

\* Promise.allSettled has resolved: the fulfilled values, in the order of the
\* promises, become `results`; return this.combinePredictions(results, 'consensus')
AllReturn ==
    /\ smMode = "all"
    /\ smInflight = {}
    /\ LET results == Flatten([i \in DOMAIN AllPromises |-> smSettled[AllPromises[i]]]) IN
         /\ smResults' = results
         /\ smDecision' = <<combinePredictions(results, "consensus")>>
    /\ smMode' = "done"
    /\ UNCHANGED <<smConfig, smTodo, smInflight, smSettled, smThrew>>
    /\ UNCHANGED <<rlVars, wsVars, apiVars, bmVars>>

\* the caller has consumed the decision; the manager is ready for the next call
NextRound ==
    /\ smMode \in {"done", "rejected"}
    /\ smMode' = "idle"
    /\ smTodo' = <<>>
    /\ smInflight' = {}
    /\ smSettled' = [t \in Tasks |-> <<>>]
    /\ smResults' = <<>>
    /\ smDecision' = <<>>
    /\ smThrew' = {}
    /\ UNCHANGED smConfig
    /\ UNCHANGED <<rlVars, wsVars, apiVars, bmVars>>

InitSM ==
    /\ RLInitial
    /\ BMInitial
    /\ \E cfg \in Configs : SMInitial(cfg)
    /\ WSInitial(PublicClient)
    /\ ApiInitial(TRUE)

NextSM ==
    \/ GetPrimaryPrediction
    \/ \E raw \in LLMOutcomes : PrimaryAwaitOpenAI(raw)
    \/ \E raw \in MLOutcomes : PrimaryAwaitML(raw)
    \/ PrimaryReturn
    \/ GetAllPredictions
    \/ \E raw \in LLMOutcomes : AllSettleOpenAI(raw)
    \/ \E raw \in MLOutcomes : AllSettleML(raw)
    \/ \E raws \in [1..3 -> VariationOutcomes] : AllSettleVariations(raws)
    \/ AllReturn
    \/ NextRound

SpecSM == InitSM /\ [][NextSM]_vars

(***************************************************************************)
(* Claims about the StrategyManager                                        *)
(***************************************************************************)
Returned == smMode = "done" /\ smDecision # <<>>
Decision == smDecision[1]

\* the indices of the results flagged successful
SuccessIdx == {i \in DOMAIN smResults : smResults[i].success}

\* C6: if no result of the round is successful (the round may have no result
\* at all), the decision is HOLD with confidence 0 and the rationale that all
\* strategies failed.
C6_AllFailedIsHold ==
    (Returned /\ SuccessIdx = {}) =>
        /\ Decision.finalSignal = "HOLD"
        /\ Decision.confidence = <<0, 1>>
        /\ Decision.reasoning = <<"all strategies returned errors">>

\* a round whose only result is a failed one
C6_Witness ==
    /\ Returned
    /\ Len(smResults) >= 1
    /\ SuccessIdx = {}

\* the opinion the decision is taken from: the successful result of the
\* primary strategy when there is one
C7_PrimaryIdx ==
    {i \in SuccessIdx : smResults[i].strategy = Decision.primaryStrategy}

\* the arithmetic mean of the confidences of the successful results
MeanOfSuccessful ==
    LET idx == SuccessIdx
        total[S \in SUBSET idx] ==
            IF S = {} THEN <<0, 1>>
            ELSE LET i == CHOOSE j \in S : TRUE
                 IN RAdd(smResults[i].prediction.confidence, total[S \ {i}])
    IN RDivInt(total[idx], Cardinality(idx))

\* the votes of the successful results for a signal
VotesFor(sig) == Cardinality({i \in SuccessIdx : smResults[i].prediction.signal = sig})

Perms(n) == {f \in [1..n -> 1..n] : \A i, j \in 1..n : i # j => f[i] # f[j]}

C9_ConsensusMean ==
    (Returned /\ Decision.primaryStrategy = "consensus" /\ SuccessIdx # {}) =>
        /\ Decision.confidence = MeanOfSuccessful
        /\ Decision.consensus[1].buyCount = VotesFor("BUY")
        /\ Decision.consensus[1].sellCount = VotesFor("SELL")
        /\ Decision.consensus[1].holdCount = VotesFor("HOLD")
        /\ Decision.consensus[1].avgConfidence = MeanOfSuccessful
        /\ ( /\ Len(smResults) = 3 /\ Cardinality(SuccessIdx) = 3
             /\ smResults[1].prediction.signal = "BUY"
             /\ smResults[1].prediction.confidence = <<9, 10>>
             /\ smResults[2].prediction.signal = "BUY"
             /\ smResults[2].prediction.confidence = <<4, 5>>
             /\ smResults[3].prediction.signal = "SELL"
             /\ smResults[3].prediction.confidence = <<3, 5>> )
           => /\ Decision.finalSignal = "BUY"
              /\ Decision.confidence = <<23, 30>>
              /\ Decision.consensus[1].buyCount = 2
              /\ Decision.consensus[1].sellCount = 1
              /\ Decision.consensus[1].holdCount = 0

\* the round of the example, and a round with a failed opinion beside
\* successful ones
C9_Witness ==
    /\ Returned /\ Decision.primaryStrategy = "consensus"
    /\ Len(smResults) = 3 /\ Cardinality(SuccessIdx) = 3
    /\ smResults[1].prediction = Prediction("BUY", <<9, 10>>, <<"openai reasoning">>)
    /\ smResults[2].prediction = Prediction("BUY", <<4, 5>>, <<"ml reasoning">>)
    /\ smResults[3].prediction.signal = "SELL"
    /\ smResults[3].prediction.confidence = <<3, 5>>

C9_WitnessFailed ==
    /\ Returned /\ Decision.primaryStrategy = "consensus"
    /\ Len(smResults) = 3 /\ Cardinality(SuccessIdx) = 2

\* the results of the adapters that did return an opinion: flagged successful,
\* and their request did not throw
GenuineIdx == {i \in SuccessIdx : smResults[i].strategy \notin smThrew}

\* the votes of a set of results for a signal, and the signal with more votes
\* than each of the other two (HOLD when there is none)
VotesOf(idx, sig) == Cardinality({i \in idx : smResults[i].prediction.signal = sig})

MajorityOf(idx) ==
    IF VotesOf(idx, "BUY") > VotesOf(idx, "SELL") /\ VotesOf(idx, "BUY") > VotesOf(idx, "HOLD")
    THEN "BUY"
    ELSE IF VotesOf(idx, "SELL") > VotesOf(idx, "BUY")
            /\ VotesOf(idx, "SELL") > VotesOf(idx, "HOLD")
    THEN "SELL"
    ELSE "HOLD"

\* the arithmetic mean of the confidences of a non-empty set of results
MeanOf(idx) ==
    LET total[S \in SUBSET idx] ==
            IF S = {} THEN <<0, 1>>
            ELSE LET i == CHOOSE j \in S : TRUE
                 IN RAdd(smResults[i].prediction.confidence, total[S \ {i}])
    IN RDivInt(total[idx], Cardinality(idx))

\* the confidence floor applied to a signal
Floored(sig, conf) == IF RLess(conf, <<51, 100>>) THEN "HOLD" ELSE sig

\* C26: in primary mode, when the primary adapter returned an opinion, the
\* decision has that opinion's confidence and, up to the confidence floor, its
\* signal, whatever the other adapters returned; when the primary adapter is
\* not available or failed and another adapter returned an opinion, the
\* decision is the vote consensus of the opinions that were returned.
C26_PrimaryElseConsensus ==
    (Returned /\ Decision.primaryStrategy \in {"openai", "ml"}) =>
        LET prim == {i \in GenuineIdx : smResults[i].strategy = Decision.primaryStrategy} IN
        /\ \A i \in prim :
              /\ Decision.confidence = smResults[i].prediction.confidence
              /\ Decision.finalSignal = Floored(smResults[i].prediction.signal,
                                                smResults[i].prediction.confidence)
        /\ (prim = {} /\ GenuineIdx # {}) =>
              /\ Decision.confidence = MeanOf(GenuineIdx)
              /\ Decision.finalSignal = Floored(MajorityOf(GenuineIdx), MeanOf(GenuineIdx))

\* the primary adapter of a getPrimaryPrediction round has settled with an opinion
PrimarySettled ==
    \E i \in DOMAIN smResults :
        smResults[i].strategy = smConfig.primary /\ smResults[i].success

\* a comparison adapter of the round has not settled yet
ComparisonOutstanding ==
    \E i \in DOMAIN smTodo : smTodo[i] # smConfig.primary

\* C33: in primary mode with comparison enabled the decision does not wait for
\* the comparison adapters: once the primary adapter has settled with an
\* opinion the decision is produced, whether or not a comparison adapter is
\* still to settle.
C33_DecisionDoesNotWait ==
    (/\ smMode = "primary"
     /\ smConfig.enableComparison
     /\ PrimarySettled
     /\ ComparisonOutstanding) => smDecision # <<>>

\* the decision of the round came out of the consensus vote: there are
\* successful results and none of them is the primary strategy's
ConsensusVote ==
    /\ Returned
    /\ SuccessIdx # {}
    /\ \A i \in SuccessIdx : smResults[i].strategy # Decision.primaryStrategy

\* the confidence floor has left the signal of the vote in place
Unfloored == ~RLess(Decision.confidence, <<51, 100>>)

\* C34 as stated: in the consensus vote the winning signal has at least as
\* many votes as every other signal (plurality wins), so that HOLD is returned
\* only if the count of HOLD is the maximum.
C34_PluralityWins ==
    (ConsensusVote /\ Unfloored) =>
        \A sig \in Signals :
            VotesOf(SuccessIdx, Decision.finalSignal) >= VotesOf(SuccessIdx, sig)

\* C34, amended: in the consensus vote BUY wins only with strictly more votes
\* than SELL and than HOLD, SELL only with strictly more votes than BUY and
\* than HOLD, and in every other case the vote returns HOLD, also when BUY and
\* SELL tie with more votes than HOLD has; no tie is left to iteration order.
C34_StrictMajorityElseHold ==
    ConsensusVote =>
        Decision.finalSignal = Floored(MajorityOf(SuccessIdx), Decision.confidence)

\* BUY and SELL tie, nobody voted HOLD, the mean confidence is above the
\* floor, and the vote returned HOLD
C34_Witness ==
    /\ ConsensusVote
    /\ Unfloored
    /\ VotesOf(SuccessIdx, "BUY") = VotesOf(SuccessIdx, "SELL")
    /\ VotesOf(SuccessIdx, "HOLD") = 0
    /\ Decision.finalSignal = "HOLD"

\* a CombinedPrediction
IsCombinedPrediction(d) ==
    /\ DOMAIN d = {"primaryStrategy", "finalSignal", "confidence", "reasoning",
                   "strategyResults", "consensus"}
    /\ d.finalSignal \in Signals
    /\ d.primaryStrategy \in {"openai", "ml", "hybrid", "consensus"}
    /\ ~RLess(d.confidence, <<0, 1>>) /\ ~RLess(<<1, 1>>, d.confidence)
    /\ Len(d.reasoning) >= 1

\* C11: getAllPredictions and getPrimaryPrediction never reject, whatever the
\* adapters do (answer, throw, time out) and whichever adapters are configured:
\* a call that has ended has returned a CombinedPrediction.
C11_NeverRejects ==
    /\ smMode # "rejected"
    /\ smMode = "done" => (smDecision # <<>> /\ IsCombinedPrediction(smDecision[1]))

\* a call returned although both adapters threw, and a call returned with no
\* adapter configured
C11_Witness ==
    /\ Returned
    /\ smThrew = {"openai", "ml"}

\* the adapters the round ran, in the order of their results
RoundAdapters ==
    IF Decision.primaryStrategy = "consensus" THEN AllPromises ELSE PrimaryOrder

\* the decision lists one result for every adapter the round ran, failed or not
ListsEveryResult ==
    /\ Decision.strategyResults = smResults
    /\ [i \in DOMAIN smResults |-> smResults[i].strategy] = RoundAdapters

\* the tally of the successful results
TallyOfRound ==
    [buyCount |-> VotesFor("BUY"), sellCount |-> VotesFor("SELL"),
     holdCount |-> VotesFor("HOLD"), avgConfidence |-> MeanOfSuccessful]

\* C12 as stated: every CombinedPrediction the engine returns contains the full
\* list of the per-adapter results of the round, failed ones included, and the
\* vote tally statistics (BUY/SELL/HOLD counts and average confidence).
C12_ListAndTally ==
    Returned =>
        /\ ListsEveryResult
        /\ Decision.consensus # <<>>
        /\ SuccessIdx # {} => Decision.consensus = <<TallyOfRound>>

\* C12, amended: every CombinedPrediction the engine returns contains the full
\* list of the per-adapter results of the round, failed ones included; it
\* contains the vote tally statistics when at least one result is successful,
\* and no tally when none is.
C12_ListAndTallyIfAnySucceeded ==
    Returned =>
        /\ ListsEveryResult
        /\ SuccessIdx # {} => Decision.consensus = <<TallyOfRound>>
        /\ SuccessIdx = {} => Decision.consensus = <<>>

\* a decision that lists a failed result beside a successful one, with its tally
C12_Witness ==
    /\ Returned
    /\ SuccessIdx # {}
    /\ \E i \in DOMAIN smResults : ~smResults[i].success
    /\ Decision.consensus # <<>>

\* C10: every adapter invocation that throws or times out, of the LLM adapter
\* as of the ML adapter, is in the result list as a HOLD opinion of confidence
\* 0 with success = false.
C10_FailuresAreTagged ==
    Returned =>
        \A t \in smThrew :
            \E i \in DOMAIN smResults :
                /\ smResults[i].strategy = t
                /\ smResults[i].success = FALSE
                /\ smResults[i].prediction.signal = "HOLD"
                /\ smResults[i].prediction.confidence = <<0, 1>>


(***************************************************************************)
(* BybitWebSocket                                                          *)
(*                                                                         *)
(* A WebSocket object is CONNECTING, OPEN, ABORTED (close() was called     *)
(* during the handshake: 'error' and 'close' are still to come), CLOSING   *)
(* ('close' is still to come) or CLOSED (also: never created).             *)
(* The handlers of every socket connect() created act on the one client,   *)
(* whether or not this.ws still refers to that socket.  The reconnect      *)
(* timers and the ping intervals fire at any moment; the clock of the      *)
(* model times the waits of the rate limiter only.                         *)
(***************************************************************************)
\* this.ws?.readyState === WebSocket.OPEN
IsOpen(socks, w) == w # 0 /\ socks[w] = "OPEN"

\* isConnected()
isConnected == IsOpen(sockets, ws)

\* a frame on the wire; replay marks the frame resubscribeAll sends
Message(op, topics, replay, expires) ==
    [op |-> op, topics |-> topics, replay |-> replay, expires |-> expires,
     key |-> IF op = "auth" THEN ConfigApiKey ELSE "none"]

\* send(data): dropped with a warning unless this.ws is open
send(socks, w, out, msg) ==
    IF IsOpen(socks, w) THEN Append(out, [sock |-> w, frame |-> msg]) ELSE out

\* authenticate()
authenticate(socks, w, out) ==
    IF wsConfig.hasKeys
    THEN send(socks, w, out, Message("auth", {}, FALSE, now + AuthExpiryMs))
    ELSE out

InsertSorted(seq, d) ==
    SelectSeq(seq, LAMBDA x : x <= d) \o <<d>> \o SelectSeq(seq, LAMBDA x : x > d)

RemoveAt(seq, i) == SubSeq(seq, 1, i - 1) \o SubSeq(seq, i + 1, Len(seq))

ReconnectDelayLinear(k) == reconnectDelay * k

\* this.reconnectDelay * Math.pow(2, this.reconnectAttempts - 1)
ReconnectDelay(k) == reconnectDelay * 2 ^ (k - 1)

scheduleReconnectOffByOne(a, tm) ==
    IF a > maxReconnectAttempts
    THEN [attempts |-> a, timers |-> tm]
    ELSE [attempts |-> a + 1, timers |-> InsertSorted(tm, ReconnectDelay(a + 1))]

scheduleReconnectUncounted(a, tm) ==
    IF a >= maxReconnectAttempts
    THEN [attempts |-> a, timers |-> tm]
    ELSE [attempts |-> a, timers |-> InsertSorted(tm, ReconnectDelay(a + 1))]

\* scheduleReconnect(): the counter and the pending timers it leaves
scheduleReconnect(a, tm) ==
    IF a >= maxReconnectAttempts
    THEN [attempts |-> a, timers |-> tm]
    ELSE [attempts |-> a + 1, timers |-> InsertSorted(tm, ReconnectDelay(a + 1))]

\* the slots whose socket is gone
FreeSlots == {s \in 1..MaxSockets : sockets[s] = "CLOSED"}

\* the slot of the next `new WebSocket(...)`
NewSlot == CHOOSE s \in FreeSlots : \A o \in FreeSlots : s <= o

\* connect(); tm is the timer list once the calling timer, if any, is gone
connect(throws, tm) ==
    IF IsOpen(sockets, ws) \/ isConnecting
    THEN /\ timers' = tm
         /\ UNCHANGED <<sockets, ws, isConnecting, reconnectAttempts>>
    ELSE IF throws
    THEN LET r == scheduleReconnect(reconnectAttempts, tm) IN
         /\ Len(r.timers) <= MaxTimers
         /\ isConnecting' = FALSE
         /\ reconnectAttempts' = r.attempts
         /\ timers' = r.timers
         /\ UNCHANGED <<sockets, ws>>
    ELSE /\ FreeSlots # {}
         /\ sockets' = [sockets EXCEPT ![NewSlot] = "CONNECTING"]
         /\ ws' = NewSlot
         /\ isConnecting' = TRUE
         /\ timers' = tm
         /\ UNCHANGED reconnectAttempts

\* an external caller invokes connect()
WsConnect(throws) ==
    /\ connect(throws, timers)
    /\ wire' = <<>>
    /\ UNCHANGED <<wsConfig, pingInterval, leakedPings, subscriptions, messageHandlers,
                   wsPending>>
    /\ delivered' = <<>>
    /\ received' = <<>>
    /\ UNCHANGED <<rlVars, smVars, apiVars, bmVars>>

\* a timer of scheduleReconnect fires: () => { this.connect() }
ReconnectTimer(i, throws) ==
    /\ i \in DOMAIN timers
    /\ connect(throws, RemoveAt(timers, i))
    /\ wire' = <<>>
    /\ UNCHANGED <<wsConfig, pingInterval, leakedPings, subscriptions, messageHandlers,
                   wsPending>>
    /\ delivered' = <<>>
    /\ received' = <<>>
    /\ UNCHANGED <<rlVars, smVars, apiVars, bmVars>>

\* a call of the client that is about to await waitForWebSocketSlot()
Call(kind, topic) ==
    [kind |-> kind, topic |-> topic, wakeAt |-> 0,
     snapshot |-> IF kind = "resubscribe" THEN subscriptions ELSE {}]

ReplayTopicsSnapshot(call) == call.snapshot

\* args: Array.from(this.subscriptions), read after the await
ReplayTopics(call) == subscriptions

\* the frame a call sends once it holds its slot
MessageFor(call) ==
    CASE call.kind = "resubscribe" -> Message("subscribe", ReplayTopics(call), TRUE, 0)
      [] call.kind = "subscribe"   -> Message("subscribe", {call.topic}, FALSE, 0)
      [] call.kind = "unsubscribe" -> Message("unsubscribe", {call.topic}, FALSE, 0)
      [] call.kind = "ping"        -> Message("ping", {}, FALSE, 0)

\* await this.rateLimiter.waitForWebSocketSlot(); this.send(...);
\* this.rateLimiter.recordWebSocketActivity()
\* One pass: either the slot is taken, the frame sent and the activity recorded,
\* or the call suspends on the limiter's setTimeout.
\* socks and out are the sockets and the frames of the step so far.
WaitThenSend(socks, out, pend, call) ==
    LET kept == Purge(websocketRequests, now) IN
    IF SlotFull(kept, maxWebsocketRequests)
    THEN /\ Len(pend) < MaxPending
         /\ websocketRequests' = kept
         /\ wsPending' = Append(pend, [call EXCEPT !.wakeAt = now + WaitTime(kept, now)])
         /\ wire' = out
         /\ UNCHANGED admittedWs
    ELSE /\ websocketRequests' = RecordActivity(Append(kept, now), now)
         /\ admittedWs' = Append(Purge(admittedWs, now), now)
         /\ wire' = send(socks, ws, out, MessageFor(call))
         /\ wsPending' = pend

SocketOpenPingAfterReplay(s) ==
    /\ sockets[s] = "CONNECTING"
    /\ pingInterval => leakedPings < MaxLeakedPings
    /\ sockets' = [sockets EXCEPT ![s] = "OPEN"]
    /\ isConnecting' = FALSE
    /\ reconnectAttempts' = 0
    /\ leakedPings' = IF pingInterval THEN leakedPings + 1 ELSE leakedPings
    /\ LET opened == [sockets EXCEPT ![s] = "OPEN"]
           authed == IF wsConfig.isPrivate THEN authenticate(opened, ws, <<>>) ELSE <<>>
       IN  IF subscriptions # {}
           THEN WaitThenSend(opened, authed, wsPending, Call("resubscribe", "none"))
           ELSE /\ wire' = authed
                /\ UNCHANGED <<websocketRequests, admittedWs, wsPending>>
    /\ pingInterval' = (Len(wsPending') = Len(wsPending))
    /\ UNCHANGED <<wsConfig, ws, timers, subscriptions, messageHandlers>>
    /\ UNCHANGED <<now, httpRequests, backoffDelay, pc, admittedHttp>>
    /\ delivered' = <<>>
    /\ received' = <<>>
    /\ UNCHANGED <<smVars, apiVars, bmVars>>

\* the 'open' handler of socket s
SocketOpen(s) ==
    /\ sockets[s] = "CONNECTING"
    /\ pingInterval => leakedPings < MaxLeakedPings
    /\ sockets' = [sockets EXCEPT ![s] = "OPEN"]
    /\ isConnecting' = FALSE
    /\ reconnectAttempts' = 0
    /\ pingInterval' = TRUE
    /\ leakedPings' = IF pingInterval THEN leakedPings + 1 ELSE leakedPings
    /\ LET opened == [sockets EXCEPT ![s] = "OPEN"]
           authed == IF wsConfig.isPrivate THEN authenticate(opened, ws, <<>>) ELSE <<>>
       IN  IF subscriptions # {}
           THEN WaitThenSend(opened, authed, wsPending, Call("resubscribe", "none"))
           ELSE /\ wire' = authed
                /\ UNCHANGED <<websocketRequests, admittedWs, wsPending>>
    /\ UNCHANGED <<wsConfig, ws, timers, subscriptions, messageHandlers>>
    /\ UNCHANGED <<now, httpRequests, backoffDelay, pc, admittedHttp>>
    /\ delivered' = <<>>
    /\ received' = <<>>
    /\ UNCHANGED <<smVars, apiVars, bmVars>>

\* cleanup(); scheduleReconnect(): the body of the 'close' and 'error' handlers
CleanupAndReschedule ==
    LET r == scheduleReconnect(reconnectAttempts, timers) IN
    /\ Len(r.timers) <= MaxTimers
    /\ pingInterval' = FALSE
    /\ isConnecting' = FALSE
    /\ reconnectAttempts' = r.attempts
    /\ timers' = r.timers

\* the 'error' handler of socket s
SocketError(s) ==
    /\ sockets[s] \in {"CONNECTING", "OPEN", "ABORTED"}
    /\ sockets' = [sockets EXCEPT ![s] = "CLOSING"]
    /\ CleanupAndReschedule
    /\ wire' = <<>>
    /\ UNCHANGED <<wsConfig, ws, leakedPings, subscriptions, messageHandlers,
                   wsPending>>
    /\ delivered' = <<>>
    /\ received' = <<>>
    /\ UNCHANGED <<rlVars, smVars, apiVars, bmVars>>

SocketCloseForgets(s) ==
    /\ sockets[s] \in {"OPEN", "CLOSING"}
    /\ sockets' = [sockets EXCEPT ![s] = "CLOSED"]
    /\ CleanupAndReschedule
    /\ wire' = <<>>
    /\ subscriptions' = {}
    /\ messageHandlers' = [t \in Topics |-> <<>>]
    /\ UNCHANGED <<wsConfig, ws, leakedPings, wsPending>>
    /\ delivered' = <<>>
    /\ received' = <<>>
    /\ UNCHANGED <<rlVars, smVars, apiVars, bmVars>>

\* the 'close' handler of socket s
SocketClose(s) ==
    /\ sockets[s] \in {"OPEN", "CLOSING"}
    /\ sockets' = [sockets EXCEPT ![s] = "CLOSED"]
    /\ CleanupAndReschedule
    /\ wire' = <<>>
    /\ UNCHANGED <<wsConfig, ws, leakedPings, subscriptions, messageHandlers,
                   wsPending>>
    /\ delivered' = <<>>
    /\ received' = <<>>
    /\ UNCHANGED <<rlVars, smVars, apiVars, bmVars>>

\* What the server sends: text that does not parse, or a message with or
\* without an op, a topic and data.  kind is message.op, "other" when the
\* message has no op or another one.
Inbound ==
    [kind : {"unparsable"}, topic : {"none"}, data : {FALSE}]
    \cup [kind : {"pong", "auth", "subscribe", "other"}, topic : Topics \cup {"none"},
          data : BOOLEAN]

\* the data messages of the topics
DataMessages == [kind : {"other"}, topic : Topics, data : {TRUE}]

RECURSIVE InvocationsUntilThrow(_)
InvocationsUntilThrow(handlers) ==
    IF handlers = <<>> THEN <<>>
    ELSE IF Head(handlers) \in ThrowingHandlers THEN <<Head(handlers)>>
    ELSE <<Head(handlers)>> \o InvocationsUntilThrow(Tail(handlers))

\* handlers.forEach(handler => { try { handler(data) } catch { log } }):
\* the handlers that are called, in the order of the calls
RECURSIVE Invocations(_)
Invocations(handlers) ==
    IF handlers = <<>> THEN <<>>
    ELSE <<Head(handlers)>> \o Invocations(Tail(handlers))

\* notifyHandlers(topic, data): every handler of the topic is called in order
notifyHandlers(topic) ==
    <<[topic |-> topic, invoked |-> Invocations(messageHandlers[topic])]>>

handleMessageNoOpCheck(m) ==
    IF m.kind = "unparsable" THEN <<>>
    ELSE IF m.topic # "none" /\ m.data THEN notifyHandlers(m.topic)
    ELSE <<>>

\* JSON.parse + handleMessage(message)
handleMessage(m) ==
    IF m.kind \in {"unparsable", "pong", "auth", "subscribe"} THEN <<>>
    ELSE IF m.topic # "none" /\ m.data THEN notifyHandlers(m.topic)
    ELSE <<>>

\* the 'message' handler of socket s
SocketMessage(s, m) ==
    /\ sockets[s] = "OPEN"
    /\ delivered' = handleMessage(m)
    /\ received' = <<m>>
    /\ wire' = <<>>
    /\ UNCHANGED <<wsConfig, sockets, ws, isConnecting, reconnectAttempts, pingInterval,
                   leakedPings, timers, subscriptions, messageHandlers, wsPending>>
    /\ UNCHANGED <<rlVars, smVars, apiVars, bmVars>>

PingThresholdAboveMax == maxWebsocketRequests * 2 + 1

\* getWebSocketRequestsCount() < 40 of the 50 allowed per window
PingThreshold == (maxWebsocketRequests * 4 + 4) \div 5

\* the callback of a ping interval that is still running
PingTick ==
    /\ pingInterval \/ leakedPings > 0
    /\ LET kept == Purge(websocketRequests, now) IN
       IF ~IsOpen(sockets, ws)
       THEN /\ wire' = <<>>
            /\ UNCHANGED <<websocketRequests, admittedWs, wsPending>>
       ELSE IF Len(kept) < PingThreshold
       THEN WaitThenSend(sockets, <<>>, wsPending, Call("ping", "none"))
       ELSE /\ websocketRequests' = kept
            /\ wire' = <<>>
            /\ UNCHANGED <<admittedWs, wsPending>>
    /\ UNCHANGED <<wsConfig, sockets, ws, isConnecting, reconnectAttempts, pingInterval, leakedPings,
                   timers, subscriptions, messageHandlers>>
    /\ UNCHANGED <<now, httpRequests, backoffDelay, pc, admittedHttp>>
    /\ delivered' = <<>>
    /\ received' = <<>>
    /\ UNCHANGED <<smVars, apiVars, bmVars>>

WsSubscribeWhenOpen(t, h) ==
    /\ h # "none" => Len(messageHandlers[t]) < MaxHandlers
    /\ subscriptions' = IF IsOpen(sockets, ws) THEN subscriptions \cup {t} ELSE subscriptions
    /\ messageHandlers' = IF h = "none" \/ ~IsOpen(sockets, ws) THEN messageHandlers
                          ELSE [messageHandlers EXCEPT ![t] = Append(@, h)]
    /\ IF IsOpen(sockets, ws)
       THEN WaitThenSend(sockets, <<>>, wsPending, Call("subscribe", t))
       ELSE /\ wire' = <<>>
            /\ UNCHANGED <<websocketRequests, admittedWs, wsPending>>
    /\ UNCHANGED <<wsConfig, sockets, ws, isConnecting, reconnectAttempts, pingInterval, leakedPings,
                   timers>>
    /\ UNCHANGED <<now, httpRequests, backoffDelay, pc, admittedHttp>>
    /\ delivered' = <<>>
    /\ received' = <<>>
    /\ UNCHANGED <<smVars, apiVars, bmVars>>

\* subscribe(topic, handler?)
WsSubscribe(t, h) ==
    /\ h # "none" => Len(messageHandlers[t]) < MaxHandlers
    /\ subscriptions' = subscriptions \cup {t}
    /\ messageHandlers' = IF h = "none" THEN messageHandlers
                          ELSE [messageHandlers EXCEPT ![t] = Append(@, h)]
    /\ IF IsOpen(sockets, ws)
       THEN WaitThenSend(sockets, <<>>, wsPending, Call("subscribe", t))
       ELSE /\ wire' = <<>>
            /\ UNCHANGED <<websocketRequests, admittedWs, wsPending>>
    /\ UNCHANGED <<wsConfig, sockets, ws, isConnecting, reconnectAttempts, pingInterval, leakedPings,
                   timers>>
    /\ UNCHANGED <<now, httpRequests, backoffDelay, pc, admittedHttp>>
    /\ delivered' = <<>>
    /\ received' = <<>>
    /\ UNCHANGED <<smVars, apiVars, bmVars>>

WsUnsubscribeKeepsHandlers(t) ==
    /\ subscriptions' = subscriptions \ {t}
    /\ UNCHANGED messageHandlers
    /\ IF IsOpen(sockets, ws)
       THEN WaitThenSend(sockets, <<>>, wsPending, Call("unsubscribe", t))
       ELSE /\ wire' = <<>>
            /\ UNCHANGED <<websocketRequests, admittedWs, wsPending>>
    /\ UNCHANGED <<wsConfig, sockets, ws, isConnecting, reconnectAttempts, pingInterval, leakedPings,
                   timers>>
    /\ UNCHANGED <<now, httpRequests, backoffDelay, pc, admittedHttp>>
    /\ delivered' = <<>>
    /\ received' = <<>>
    /\ UNCHANGED <<smVars, apiVars, bmVars>>

\* unsubscribe(topic)
WsUnsubscribe(t) ==
    /\ subscriptions' = subscriptions \ {t}
    /\ messageHandlers' = [messageHandlers EXCEPT ![t] = <<>>]
    /\ IF IsOpen(sockets, ws)
       THEN WaitThenSend(sockets, <<>>, wsPending, Call("unsubscribe", t))
       ELSE /\ wire' = <<>>
            /\ UNCHANGED <<websocketRequests, admittedWs, wsPending>>
    /\ UNCHANGED <<wsConfig, sockets, ws, isConnecting, reconnectAttempts, pingInterval, leakedPings,
                   timers>>
    /\ UNCHANGED <<now, httpRequests, backoffDelay, pc, admittedHttp>>
    /\ delivered' = <<>>
    /\ received' = <<>>
    /\ UNCHANGED <<smVars, apiVars, bmVars>>

\* the setTimeout of a suspended call fires: waitForWebSocketSlot() runs again
ResumeCall(i) ==
    /\ i \in DOMAIN wsPending
    /\ now >= wsPending[i].wakeAt
    /\ WaitThenSend(sockets, <<>>, RemoveAt(wsPending, i), wsPending[i])
    /\ UNCHANGED <<wsConfig, sockets, ws, isConnecting, reconnectAttempts, pingInterval, leakedPings,
                   timers, subscriptions, messageHandlers>>
    /\ UNCHANGED <<now, httpRequests, backoffDelay, pc, admittedHttp>>
    /\ delivered' = <<>>
    /\ received' = <<>>
    /\ UNCHANGED <<smVars, apiVars, bmVars>>

\* ws.close() on a socket object
close(sock) ==
    CASE sock = "OPEN"       -> "CLOSING"
      [] sock = "CONNECTING" -> "ABORTED"
      [] OTHER               -> sock

\* disconnect()
WsDisconnect ==
    /\ pingInterval' = FALSE
    /\ isConnecting' = FALSE
    /\ sockets' = IF ws # 0 THEN [sockets EXCEPT ![ws] = close(@)] ELSE sockets
    /\ ws' = 0
    /\ wire' = <<>>
    /\ subscriptions' = {}
    /\ messageHandlers' = [t \in Topics |-> <<>>]
    /\ httpRequests' = <<>>
    /\ websocketRequests' = <<>>
    /\ backoffDelay' = BackoffFloor
    /\ admittedHttp' = <<>>
    /\ admittedWs' = <<>>
    /\ UNCHANGED <<wsConfig, reconnectAttempts, leakedPings, timers, wsPending>>
    /\ UNCHANGED <<now, pc>>
    /\ delivered' = <<>>
    /\ received' = <<>>
    /\ UNCHANGED <<smVars, apiVars, bmVars>>

\* time passes for the socket client
TickWS ==
    /\ now + ClockStep <= MaxTime
    /\ now' = now + ClockStep
    /\ admittedHttp' = Purge(admittedHttp, now')
    /\ admittedWs' = Purge(admittedWs, now')
    /\ wire' = <<>>
    /\ delivered' = <<>>
    /\ received' = <<>>
    /\ UNCHANGED <<httpRequests, websocketRequests, backoffDelay, pc>>
    /\ UNCHANGED <<wsConfig, sockets, ws, isConnecting, reconnectAttempts, pingInterval,
                   leakedPings, timers, subscriptions, messageHandlers, wsPending>>
    /\ UNCHANGED <<smVars, apiVars, bmVars>>

\* new BybitWebSocket(): the public stream
InitWS ==
    /\ RLInitial
    /\ BMInitial
    /\ SMInitial(DefaultConfig)
    /\ WSInitial(PublicClient)
    /\ ApiInitial(TRUE)

NextWS ==
    \/ \E throws \in BOOLEAN : WsConnect(throws)
    \/ \E i \in 1..MaxTimers, throws \in BOOLEAN : ReconnectTimer(i, throws)
    \/ \E s \in 1..MaxSockets : SocketOpen(s)
    \/ \E s \in 1..MaxSockets : SocketError(s)
    \/ \E s \in 1..MaxSockets : SocketClose(s)
    \/ PingTick
    \/ \E t \in Topics : WsSubscribe(t, "none")
    \/ \E t \in Topics : WsUnsubscribe(t)
    \/ \E i \in 1..MaxPending : ResumeCall(i)
    \/ WsDisconnect
    \/ TickWS

SpecWS == InitWS /\ [][NextWS]_vars

\* The client whose every subscribe call brings a handler, with inbound
\* messages; its ping interval and the failures of `new WebSocket` are left out
NextHandlers ==
    \/ WsConnect(FALSE)
    \/ \E i \in 1..MaxTimers : ReconnectTimer(i, FALSE)
    \/ \E s \in 1..MaxSockets : SocketOpen(s)
    \/ \E s \in 1..MaxSockets : SocketError(s)
    \/ \E s \in 1..MaxSockets : SocketClose(s)
    \/ \E s \in 1..MaxSockets, m \in DataMessages : SocketMessage(s, m)
    \/ \E t \in Topics, h \in Handlers : WsSubscribe(t, h)
    \/ \E t \in Topics : WsUnsubscribe(t)
    \/ \E i \in 1..MaxPending : ResumeCall(i)
    \/ WsDisconnect
    \/ TickWS

SpecHandlers == InitWS /\ [][NextHandlers]_vars


(***************************************************************************)
(* Claims about the BybitWebSocket                                         *)
(***************************************************************************)
\* the 'open' event of socket s is delivered in this step
OpenStep(s) == sockets[s] = "CONNECTING" /\ sockets'[s] = "OPEN"

\* an 'error' or a 'close' event of some socket is delivered in this step
\* (disconnect() moves a socket too, but it also clears a non-null this.ws)
SocketFailureStep ==
    \E s \in 1..MaxSockets :
        /\ \/ sockets[s] \in {"CONNECTING", "OPEN", "ABORTED"} /\ sockets'[s] = "CLOSING"
           \/ sockets[s] \in {"OPEN", "CLOSING"} /\ sockets'[s] = "CLOSED"
        /\ ws' = ws

\* connect() got past its guard and `new WebSocket` threw in this step
ConnectThrowsStep ==
    /\ ~(IsOpen(sockets, ws) \/ isConnecting)
    /\ \/ WsConnect(TRUE)
       \/ \E i \in 1..MaxTimers : ReconnectTimer(i, TRUE)

\* a connection attempt fails in this step
FailureStep == SocketFailureStep \/ ConnectThrowsStep

\* the replay frames among the frames of the latest step
ReplayFrames == {i \in DOMAIN wire : wire[i].frame.replay}

\* a replay (the frame of resubscribeAll) carries the subscription set as it is
\* when the frame is sent, and goes out on the open socket this.ws refers to
ReplayIsCurrentSet ==
    \A i \in ReplayFrames :
        /\ wire[i].frame.op = "subscribe"
        /\ wire[i].frame.topics = subscriptions
        /\ wire[i].sock = ws
        /\ isConnected

\* when the socket this.ws refers to opens and the set is not empty, the replay
\* is sent in the same step or is suspended on the rate limiter
OpenStartsReplay ==
    (ws # 0 /\ OpenStep(ws) /\ subscriptions # {})
        => \/ \E i \in DOMAIN wire' : wire'[i].frame.replay
           \/ /\ Len(wsPending') = Len(wsPending) + 1
              /\ wsPending'[Len(wsPending')].kind = "resubscribe"

\* when a suspended replay gets its slot while the client is connected,
\* the frame is sent with the set of that moment
ResumedReplayIsSent ==
    \A i \in DOMAIN wsPending :
        (/\ wsPending[i].kind = "resubscribe"
         /\ wsPending' = RemoveAt(wsPending, i)
         /\ isConnected)
            => wire' = <<[sock |-> ws, frame |-> Message("subscribe", subscriptions, TRUE, 0)]>>

Exhausted ==
    /\ reconnectAttempts = maxReconnectAttempts
    /\ timers = <<>>
    /\ \A s \in 1..MaxSockets : sockets[s] = "CLOSED"
    /\ ~isConnecting

C4_ResetAndIncrement ==
    [][/\ (\E s \in 1..MaxSockets : OpenStep(s)) => reconnectAttempts' = 0
       /\ FailureStep => reconnectAttempts' = reconnectAttempts + 1]_vars

\* C4, amended: reconnectAttempts is reset to zero whenever a socket opens; a
\* failed connection attempt increments it while it is below
\* maxReconnectAttempts and leaves it unchanged at the maximum.
C4_ResetAndIncrementBelowMax ==
    [][/\ (\E s \in 1..MaxSockets : OpenStep(s)) => reconnectAttempts' = 0
       /\ FailureStep =>
            reconnectAttempts' = IF reconnectAttempts < maxReconnectAttempts
                                 THEN reconnectAttempts + 1
                                 ELSE reconnectAttempts]_vars

\* an 'error' was delivered with the counter at the maximum: nothing is
\* scheduled, and the 'close' of the same socket is still to come
C4_Witness ==
    /\ reconnectAttempts = maxReconnectAttempts
    /\ timers = <<>>
    /\ \E s \in 1..MaxSockets : sockets[s] = "CLOSING"

\* reconnectDelay doubled k - 1 times
RECURSIVE DoubledDelay(_)
DoubledDelay(k) == IF k <= 1 THEN reconnectDelay ELSE 2 * DoubledDelay(k - 1)

\* scheduleReconnect() counts an attempt and arms its timer in this step
AttemptCounted ==
    reconnectAttempts' = reconnectAttempts + 1

\* C31: the k-th reconnect attempt in a row since the connection was lost
\* (k is the counter once the attempt is counted, 1 <= k <=
\* maxReconnectAttempts) is scheduled with the delay reconnectDelay * 2^(k-1):
\* the step adds one timer with that delay to the pending ones, less the
\* timer that fired if the step is a timer callback.
C31_DelayDoubles ==
    [][AttemptCounted =>
        /\ reconnectAttempts' \in 1..maxReconnectAttempts
        /\ \E before \in {timers} \cup {RemoveAt(timers, i) : i \in DOMAIN timers} :
              timers' = InsertSorted(before, DoubledDelay(reconnectAttempts'))]_vars

\* the last attempt allowed is scheduled, with four times the base delay
C31_Witness ==
    /\ reconnectAttempts = maxReconnectAttempts
    /\ timers = <<DoubledDelay(maxReconnectAttempts)>>

\* what getWebSocketRequestsCount() returns now
WsCount == Len(Purge(websocketRequests, now))

\* C32: a keepalive tick never queues behind the rate limiter: with the count
\* of the WebSocket window at or above the reserve threshold the ping is
\* skipped, and below it the ping's waitForWebSocketSlot() returns without
\* suspending, so that the ping is sent in the tick itself.
C32_PingNeverQueues ==
    /\ [](\A i \in DOMAIN wsPending : wsPending[i].kind # "ping")
    /\ [][PingTick =>
            /\ wsPending' = wsPending
            /\ WsCount >= PingThreshold => wire' = <<>>
            /\ (WsCount < PingThreshold /\ isConnected) =>
                  wire' = <<[sock |-> ws, frame |-> Message("ping", {}, FALSE, 0)]>>]_vars

\* a ping went out in its tick while another call was still suspended on
\* the rate limiter
C32_Witness ==
    /\ wsPending # <<>>
    /\ \E i \in DOMAIN wire : wire[i].frame.op = "ping"

\* C35: after disconnect() (this.ws is null) the events of the socket that was
\* closed schedule no reconnect, and no connection is attempted until connect()
\* is called: a step taken with this.ws null adds no reconnect timer, and
\* only an external connect() call gives the client a socket again.
C35_DisconnectSticks ==
    [][ws = 0 =>
        /\ Len(timers') <= Len(timers)
        /\ ws' # 0 => \E throws \in BOOLEAN : WsConnect(throws)]_vars

\* the sockets that are connecting or open
LiveSockets == {s \in 1..MaxSockets : sockets[s] \in {"CONNECTING", "OPEN"}}

\* the ping intervals that are running: the one this.pingInterval refers to
\* and those startPing() overwrote without clearing
ActivePings == (IF pingInterval THEN 1 ELSE 0) + leakedPings

\* C37: whatever connect calls, socket events and reconnect timers occur, the
\* client has at most one running ping interval and at most one socket that is
\* connecting or open.
C37_OnePingOneSocket ==
    /\ ActivePings <= 1
    /\ Cardinality(LiveSockets) <= 1

\* The client that no caller disconnects: its sockets are lost to transport
\* failures only, so that a socket is CLOSING only between its 'error' and
\* its 'close'
NextFailures ==
    \/ WsConnect(FALSE)
    \/ \E i \in 1..MaxTimers : ReconnectTimer(i, FALSE)
    \/ \E s \in 1..MaxSockets : SocketOpen(s)
    \/ \E s \in 1..MaxSockets : SocketError(s)
    \/ \E s \in 1..MaxSockets : SocketClose(s)
    \/ \E t \in Topics : WsSubscribe(t, "none")
    \/ \E i \in 1..MaxPending : ResumeCall(i)
    \/ TickWS

SpecFailures == InitWS /\ [][NextFailures]_vars

\* the 'error' event of socket s is delivered in this step
ErrorStep(s) == sockets[s] \in {"CONNECTING", "OPEN"} /\ sockets'[s] = "CLOSING"

\* the 'close' event that follows the 'error' of socket s is delivered
CloseAfterErrorStep(s) == sockets[s] = "CLOSING" /\ sockets'[s] = "CLOSED"

\* C36: one transport failure, whose 'error' event is followed by the 'close'
\* event of the same socket, counts one reconnect attempt and arms one
\* reconnect timer: the 'error' counts at most one attempt and arms at most
\* one timer, and the 'close' that follows adds nothing to either.
C36_OneFailureOneAttempt ==
    [][\A s \in 1..MaxSockets :
        /\ ErrorStep(s) =>
              /\ reconnectAttempts' <= reconnectAttempts + 1
              /\ Len(timers') <= Len(timers) + 1
        /\ CloseAfterErrorStep(s) =>
              /\ reconnectAttempts' = reconnectAttempts
              /\ timers' = timers]_vars

\* time passes for the callers of subscribe and unsubscribe
TickTopics ==
    /\ now + ClockStep <= MaxTopicsTime
    /\ now' = now + ClockStep
    /\ admittedHttp' = Purge(admittedHttp, now')
    /\ admittedWs' = Purge(admittedWs, now')
    /\ wire' = <<>>
    /\ delivered' = <<>>
    /\ received' = <<>>
    /\ UNCHANGED <<httpRequests, websocketRequests, backoffDelay, pc>>
    /\ UNCHANGED <<wsConfig, sockets, ws, isConnecting, reconnectAttempts, pingInterval,
                   leakedPings, timers, subscriptions, messageHandlers, wsPending>>
    /\ UNCHANGED <<smVars, apiVars, bmVars>>

\* Callers that subscribe and unsubscribe while the connection is up, lost
\* and re-established
NextTopics ==
    \/ WsConnect(FALSE)
    \/ \E i \in 1..MaxTimers : ReconnectTimer(i, FALSE)
    \/ \E s \in 1..MaxSockets : SocketOpen(s)
    \/ \E s \in 1..MaxSockets : SocketClose(s)
    \/ \E t \in Topics : WsSubscribe(t, "none")
    \/ \E t \in Topics : WsUnsubscribe(t)
    \/ \E i \in 1..MaxPending : ResumeCall(i)
    \/ TickTopics

SpecTopics == InitWS /\ [][NextTopics]_vars

\* a frame is sent in this step and no call is left suspended after it
LastPendingSends == wire' # <<>> /\ wsPending' = <<>>

\* C38: however subscribe, unsubscribe and the replay of a reconnection
\* interleave on the rate limiter, once no call is suspended any more the
\* server's view of the connection is the local subscription set: the frame
\* that completes the last pending call agrees with the set, a subscribe
\* naming only topics that are in it and an unsubscribe only topics that are
\* not.
C38_RemoteMatchesLocal ==
    [][LastPendingSends =>
        \A i \in DOMAIN wire' :
            /\ wire'[i].frame.op = "subscribe" =>
                  wire'[i].frame.topics \subseteq subscriptions'
            /\ wire'[i].frame.op = "unsubscribe" =>
                  wire'[i].frame.topics \cap subscriptions' = {}]_vars

\* the subscribe, unsubscribe, replay and ping frames among the frames of a step
ControlFrames(w) == {i \in DOMAIN w : w[i].frame.op \in {"subscribe", "unsubscribe", "ping"}}

\* C39: each subscribe, unsubscribe, replay or ping frame adds exactly one
\* timestamp to the WebSocket window, so the count of live timestamps never
\* exceeds maxWebsocketRequests.
C39_OneTimestampPerMessage ==
    /\ [](Len(Purge(websocketRequests, now)) <= maxWebsocketRequests)
    /\ [][ControlFrames(wire') # {} =>
            Len(websocketRequests') =
                Len(Purge(websocketRequests, now)) + Cardinality(ControlFrames(wire'))]_vars

\* the sequences over S of length n at most
BoundedSeqs(S, n) == UNION {[1..k -> S] : k \in 0..n}

\* A connected public client whose callers have registered their handlers:
\* any registry of up to MaxRegistered handlers per topic
InitDispatch ==
    /\ RLInitial
    /\ BMInitial
    /\ SMInitial(DefaultConfig)
    /\ ApiInitial(TRUE)
    /\ wsConfig = PublicClient
    /\ sockets = [s \in 1..MaxSockets |-> IF s = 1 THEN "OPEN" ELSE "CLOSED"]
    /\ ws = 1
    /\ isConnecting = FALSE
    /\ reconnectAttempts = 0
    /\ pingInterval = TRUE
    /\ leakedPings = 0
    /\ timers = <<>>
    /\ messageHandlers \in [Topics -> BoundedSeqs(DispatchHandlers, MaxRegistered)]
    /\ subscriptions = {t \in Topics : messageHandlers[t] # <<>>}
    /\ wire = <<>>
    /\ wsPending = <<>>
    /\ delivered = <<>>
    /\ received = <<>>

\* inbound messages of every kind, and the calls that change the registry
NextDispatch ==
    \/ \E s \in 1..MaxSockets, m \in Inbound : SocketMessage(s, m)
    \/ \E t \in Topics, h \in DispatchHandlers : WsSubscribe(t, h)
    \/ \E t \in Topics : WsUnsubscribe(t)
    \/ \E i \in 1..MaxPending : ResumeCall(i)
    \/ TickWS

SpecDispatch == InitDispatch /\ [][NextDispatch]_vars

\* the latest step processed the data message m of a topic
DataProcessed(m) ==
    /\ received' = <<m>>
    /\ m.kind = "other"
    /\ m.topic # "none"
    /\ m.data

\* C22: an inbound data message of a topic is delivered to every handler
\* registered for the topic, in the order of registration; a handler that
\* throws does not keep the handlers after it from being called.
C22_EveryHandlerInOrder ==
    [][ \A m \in Inbound :
          DataProcessed(m) =>
              delivered' = <<[topic |-> m.topic, invoked |-> messageHandlers[m.topic]]>>
      ]_vars

\* a message went to three handlers of which the first threw
C22_Witness ==
    /\ received # <<>>
    /\ delivered # <<>>
    /\ Len(delivered[1].invoked) = 3
    /\ delivered[1].invoked[1] \in ThrowingHandlers
    /\ delivered[1].invoked[3] \notin ThrowingHandlers

\* C23: an inbound pong, auth acknowledgement or subscribe acknowledgement
\* reaches no handler, whatever topic and data it carries.
C23_ControlMessagesConsumed ==
    [][ \A m \in Inbound :
          (received' = <<m>> /\ m.kind \in {"pong", "auth", "subscribe"}) =>
              delivered' = <<>>
      ]_vars

\* a control message that carries the topic of registered handlers, and data,
\* has just been processed
C23_Witness ==
    /\ received # <<>>
    /\ received[1].kind \in {"pong", "auth", "subscribe"}
    /\ received[1].topic # "none"
    /\ received[1].data
    /\ messageHandlers[received[1].topic] # <<>>

\* new BybitWebSocket(true) with BYBIT_API_KEY and BYBIT_API_SECRET set
PrivateClient == [isPrivate |-> TRUE, hasKeys |-> TRUE]

InitPrivate ==
    /\ RLInitial
    /\ BMInitial
    /\ SMInitial(DefaultConfig)
    /\ WSInitial(PrivateClient)
    /\ ApiInitial(TRUE)

\* the private stream: connections, their failures and reconnects, and
\* subscribe calls
NextPrivate ==
    \/ WsConnect(FALSE)
    \/ \E i \in 1..MaxTimers : ReconnectTimer(i, FALSE)
    \/ \E s \in 1..MaxSockets : SocketOpen(s)
    \/ \E s \in 1..MaxSockets : SocketError(s)
    \/ \E s \in 1..MaxSockets : SocketClose(s)
    \/ \E t \in Topics : WsSubscribe(t, "none")
    \/ \E i \in 1..MaxPending : ResumeCall(i)
    \/ TickWS

SpecPrivate == InitPrivate /\ [][NextPrivate]_vars

\* C24: on a private client with credentials every connection that opens
\* sends an auth frame built at that moment (expires = now + 10000), and it is
\* the first frame of the connection, ahead of any subscribe frame.
C24_AuthOnEveryOpen ==
    [][ \A s \in 1..MaxSockets :
          OpenStep(s) =>
              /\ wire' # <<>>
              /\ wire'[1] = [sock |-> s,
                             frame |-> Message("auth", {}, FALSE, now + AuthExpiryMs)]
              /\ \A i \in DOMAIN wire' : i > 1 => wire'[i].frame.op # "auth"
      ]_vars

\* the one frame of a replay: all registered topics in a single subscribe
ReplayFrame == [sock |-> ws, frame |-> Message("subscribe", subscriptions, TRUE, 0)]

\* a replay has been suspended on the rate limiter in this step
ReplaySuspended ==
    /\ Len(wsPending') = Len(wsPending) + 1
    /\ wsPending'[Len(wsPending')].kind = "resubscribe"

\* C30 as stated: on each connection that opens the registered topics are
\* replayed as one batched subscribe frame after the rate limiter's admission,
\* and the keepalive timer is started only once that replay has been sent.
C30_ReplayThenKeepalive ==
    [][ \A s \in 1..MaxSockets :
          (OpenStep(s) /\ subscriptions # {}) =>
              /\ wire' = <<ReplayFrame>> \/ ReplaySuspended
              /\ pingInterval' => wire' = <<ReplayFrame>>
      ]_vars

\* C30, amended: when a connection opens the keepalive timer is started at
\* once; the registered topics, if any, are replayed as one batched subscribe
\* frame after the rate limiter's admission, at once or after its wait, and the
\* frame goes out if the socket the client holds is open at that moment.
C30_KeepaliveThenReplay ==
    [][ /\ \A s \in 1..MaxSockets :
              OpenStep(s) =>
                  /\ pingInterval'
                  /\ IF subscriptions = {}
                     THEN wire' = <<>> /\ wsPending' = wsPending
                     ELSE \/ ReplaySuspended /\ wire' = <<>>
                          \/ /\ wsPending' = wsPending
                             /\ wire' = IF IsOpen(sockets', ws) THEN <<ReplayFrame>> ELSE <<>>
        /\ \A i \in DOMAIN wsPending :
              (/\ wsPending[i].kind = "resubscribe"
               /\ wsPending' = RemoveAt(wsPending, i))
                  => wire' = IF isConnected THEN <<ReplayFrame>> ELSE <<>>
      ]_vars

\* a keepalive ping has gone out while the replay of the connection is still
\* waiting for its slot
C30_Witness ==
    /\ \E i \in DOMAIN wire : wire[i].frame.op = "ping"
    /\ \E j \in DOMAIN wsPending : wsPending[j].kind = "resubscribe"
    /\ pingInterval

\* a connection is started in this step: connect() creates a socket
ConnectStep == \E s \in 1..MaxSockets : sockets[s] = "CLOSED" /\ sockets'[s] = "CONNECTING"

\* a reconnect is scheduled, or a scheduled one fires, in this step
ScheduleStep == timers' # timers \/ reconnectAttempts' # reconnectAttempts

\* C19: the subscription set and the handler registry are left as they are by
\* the 'close' and the 'error' of a socket, by the scheduling of a reconnect,
\* by the reconnect itself and by the 'open' that completes it; a topic leaves
\* the set only through unsubscribe(topic) or disconnect().
C19_RegistrySurvivesReconnect ==
    [][ /\ (\/ SocketFailureStep
            \/ ScheduleStep
            \/ ConnectStep
            \/ \E s \in 1..MaxSockets : OpenStep(s))
              => /\ subscriptions' = subscriptions
                 /\ messageHandlers' = messageHandlers
        /\ \A t \in Topics :
              (t \in subscriptions /\ t \notin subscriptions')
                  => (WsUnsubscribe(t) \/ WsDisconnect)
      ]_vars

\* a topic and its handler are registered while the client, after a failed
\* connection, is connecting again
C19_Witness ==
    /\ subscriptions # {}
    /\ \E t \in subscriptions : messageHandlers[t] # <<>>
    /\ reconnectAttempts > 0
    /\ isConnecting
    /\ timers = <<>>

\* what a step of subscribe(t, h) does at once: the topic is in the set and the
\* handler is the last of the topic's handlers; on an open socket the call
\* sends its frame or is suspended on the rate limiter, otherwise it sends
\* nothing and no call is left behind
SubscribeRegisters ==
    \A t \in Topics, h \in Handlers :
        WsSubscribe(t, h) =>
            /\ t \in subscriptions'
            /\ messageHandlers'[t] = Append(messageHandlers[t], h)
            /\ IF isConnected
               THEN \/ wire' = <<[sock |-> ws, frame |-> Message("subscribe", {t}, FALSE, 0)]>>
                    \/ /\ wire' = <<>>
                       /\ wsPending' = Append(wsPending,
                                               [kind |-> "subscribe", topic |-> t,
                                                wakeAt |-> wsPending'[Len(wsPending')].wakeAt,
                                                snapshot |-> {}])
                       /\ wsPending'[Len(wsPending')].wakeAt > now
               ELSE wire' = <<>> /\ wsPending' = wsPending

\* the suspended subscribe call i gets its slot in this step
SubscribeAdmitted(i) ==
    /\ wsPending[i].kind = "subscribe"
    /\ wsPending' = RemoveAt(wsPending, i)
    /\ Len(admittedWs') = Len(admittedWs) + 1

\* C20 as stated: subscribe(topic, handler) registers topic and handler at once
\* in every connection state; called on an open socket it sends a subscribe
\* frame for that one topic once the rate limiter admits it, and called on a
\* socket that is not open it sends nothing.
C20_SubscribeSends ==
    [][ /\ SubscribeRegisters
        /\ \A i \in DOMAIN wsPending :
              SubscribeAdmitted(i) =>
                  \E s \in 1..MaxSockets :
                      wire' = <<[sock |-> s,
                                 frame |-> Message("subscribe", {wsPending[i].topic}, FALSE, 0)]>>
      ]_vars

\* C20, amended: as above, but a call that had to wait for its slot sends its
\* frame only if the client's socket is open when the slot is granted;
\* otherwise the frame is dropped and nothing is sent.
C20_SubscribeSendsIfStillOpen ==
    [][ /\ SubscribeRegisters
        /\ \A i \in DOMAIN wsPending :
              SubscribeAdmitted(i) =>
                  wire' = IF isConnected
                          THEN <<[sock |-> ws,
                                  frame |-> Message("subscribe", {wsPending[i].topic}, FALSE, 0)]>>
                          ELSE <<>>
      ]_vars

\* a subscribe frame for a topic with a handler has just gone out after the
\* call had waited for the window to free a slot
C20_Witness ==
    /\ wire # <<>>
    /\ wire[1].frame = Message("subscribe", {"tickers"}, FALSE, 0)
    /\ messageHandlers["tickers"] # <<>>
    /\ now >= windowMs + SafetyBufferMs
    /\ \E i \in DOMAIN admittedWs : admittedWs[i] = now

\* what a step of unsubscribe(t) does at once: the topic and its handlers are
\* gone; on an open socket the call sends its frame or is suspended on the
\* rate limiter, otherwise it sends nothing
UnsubscribeRemoves ==
    \A t \in Topics :
        WsUnsubscribe(t) =>
            /\ t \notin subscriptions'
            /\ messageHandlers'[t] = <<>>
            /\ IF isConnected
               THEN \/ wire' = <<[sock |-> ws, frame |-> Message("unsubscribe", {t}, FALSE, 0)]>>
                    \/ /\ wire' = <<>>
                       /\ Len(wsPending') = Len(wsPending) + 1
                       /\ wsPending'[Len(wsPending')].kind = "unsubscribe"
                       /\ wsPending'[Len(wsPending')].topic = t
                       /\ wsPending'[Len(wsPending')].wakeAt > now
               ELSE wire' = <<>> /\ wsPending' = wsPending

\* once a topic has no handlers, no inbound message invokes one for it, and
\* only a subscribe call brings handlers back; a topic outside the set is in
\* no replay frame
RemovedStaysSilent ==
    \A t \in Topics :
        /\ messageHandlers[t] = <<>> =>
              /\ \A i \in DOMAIN delivered' :
                    delivered'[i].topic = t => delivered'[i].invoked = <<>>
              /\ messageHandlers'[t] # <<>> => \E h \in Handlers : WsSubscribe(t, h)
        /\ t \notin subscriptions' =>
              \A i \in DOMAIN wire' : wire'[i].frame.replay => t \notin wire'[i].frame.topics

\* the suspended unsubscribe call i gets its slot in this step
UnsubscribeAdmitted(i) ==
    /\ wsPending[i].kind = "unsubscribe"
    /\ wsPending' = RemoveAt(wsPending, i)
    /\ Len(admittedWs') = Len(admittedWs) + 1

\* C21 as stated: unsubscribe(topic) removes the topic and all its handlers, so
\* that no handler of the topic is invoked for a message processed afterwards
\* and the topic is in no later replay; called on an open socket it sends an
\* unsubscribe frame (once the rate limiter admits it).
C21_UnsubscribeSends ==
    [][ /\ UnsubscribeRemoves
        /\ RemovedStaysSilent
        /\ \A i \in DOMAIN wsPending :
              UnsubscribeAdmitted(i) =>
                  \E s \in 1..MaxSockets :
                      wire' = <<[sock |-> s,
                                 frame |-> Message("unsubscribe", {wsPending[i].topic}, FALSE, 0)]>>
      ]_vars

\* C21, amended: as above, but a call that had to wait for its slot sends its
\* frame only if the client's socket is open when the slot is granted.
C21_UnsubscribeSendsIfStillOpen ==
    [][ /\ UnsubscribeRemoves
        /\ RemovedStaysSilent
        /\ \A i \in DOMAIN wsPending :
              UnsubscribeAdmitted(i) =>
                  wire' = IF isConnected
                          THEN <<[sock |-> ws,
                                  frame |-> Message("unsubscribe", {wsPending[i].topic}, FALSE, 0)]>>
                          ELSE <<>>
      ]_vars

\* a data message of a topic that was unsubscribed has just been processed on
\* an open socket and reached no handler
C21_Witness ==
    /\ delivered = <<[topic |-> "tickers", invoked |-> <<>>]>>
    /\ "tickers" \notin subscriptions
    /\ isConnected
    /\ websocketRequests # <<>>


(***************************************************************************)
(* BybitApi: makeRequest and the operations built on it                    *)
(***************************************************************************)
PublicOps == {"fetchTicker"}
\* the private operations whose requestFunc checks config.bybit.apiKey first
CheckedOps == {"fetchBalance", "createOrder"}
\* the private operations whose requestFunc goes straight to this.exchange
UncheckedOps == {"cancelOrder", "fetchOpenOrders", "fetchPositions"}
PrivateOps == CheckedOps \cup UncheckedOps
Ops == PublicOps \cup PrivateOps

\* the clock readings of the exchange relative to ours
ServerSkews == {0, 500}

\* an error thrown inside the try block of attempt k
Error(kind, k) == [kind |-> kind, at |-> k]

\* new Error('... rate limit'): the error makeRequest creates itself when the
\* last attempt was rate-limited
RetryLimitError == Error("retry limit exceeded", 0)

\* error.message includes 'Rate limit', 'Too many visits', '403' or '10006'
IsRateLimit(e) == e.kind = "ratelimit"

\* What one run of requestFunc can come to.  Without an API key a checked
\* operation throws its configuration error before it touches the exchange; an
\* unchecked one calls the exchange method, which cannot succeed unsigned.
RequestOutcomes(op) ==
    IF op \in CheckedOps /\ ~apiConfig.hasKeys THEN {"config"}
    ELSE IF op \in UncheckedOps /\ apiConfig.exchangeKey = "none" THEN {"auth", "ratelimit", "other"}
    ELSE {"ok", "ratelimit", "other"}

\* a fetchTime request goes out now; the two latest are remembered
Issue(issued) == LastN(Append(issued, now), 2)

\* one pass through waitForHttpSlot() inside the gateway: the call stays
\* suspended at `here` or, admitted, moves on to `next`
ApiSlotPass(here, next) ==
    LET kept == Purge(httpRequests, now) IN
    IF SlotFull(kept, maxHttpRequests)
    THEN /\ httpRequests' = kept
         /\ apiPc' = [at |-> here, wakeAt |-> now + WaitTime(kept, now)]
         /\ UNCHANGED admittedHttp
    ELSE /\ httpRequests' = Append(kept, now)
         /\ apiPc' = [at |-> next, wakeAt |-> 0]
         /\ admittedHttp' = Append(Purge(admittedHttp, now), now)

\* a gateway operation is called: makeRequest starts attempt 1
ApiCall(op) ==
    /\ apiCall = "none"
    /\ apiCall' = op
    /\ apiPc' = [at |-> "slot", wakeAt |-> 0]
    /\ attempt' = 1
    /\ apiErrors' = <<>>
    /\ apiExchange' = 0
    /\ apiBackoffs' = 0
    /\ slotAttempt' = 0
    /\ apiOutcome' = <<>>
    /\ UNCHANGED <<apiConfig, parentLimiter, lastTimeSync, serverTimeOffset, syncNow,
                   fetchIssued, syncPc>>
    /\ UNCHANGED <<rlVars, smVars, wsVars, bmVars>>

\* await this.rateLimiter.waitForHttpSlot() of makeRequest; once admitted,
\* syncServerTime() starts: it returns at once if the last sync is recent
ApiSlot ==
    /\ apiPc.at = "slot"
    /\ now >= apiPc.wakeAt
    /\ ApiSlotPass("slot",
                   IF now - lastTimeSync < SyncIntervalMs THEN "request" ELSE "syncSlot")
    /\ syncNow' = now
    /\ slotAttempt' = IF apiPc'.at = "slot" THEN slotAttempt ELSE attempt
    /\ UNCHANGED <<apiConfig, parentLimiter, apiCall, attempt, lastTimeSync, serverTimeOffset,
                   apiErrors, apiExchange, apiBackoffs, fetchIssued, syncPc, apiOutcome>>
    /\ UNCHANGED <<now, websocketRequests, backoffDelay, pc, admittedWs>>
    /\ UNCHANGED <<smVars, wsVars, bmVars>>

\* await this.rateLimiter.waitForHttpSlot() of syncServerTime
ApiSyncSlot ==
    /\ apiPc.at = "syncSlot"
    /\ now >= apiPc.wakeAt
    /\ ApiSlotPass("syncSlot", "fetchTime")
    /\ fetchIssued' = IF apiPc'.at = "fetchTime" THEN Issue(fetchIssued) ELSE fetchIssued
    /\ UNCHANGED slotAttempt
    /\ UNCHANGED syncPc
    /\ UNCHANGED <<apiConfig, parentLimiter, apiCall, attempt, lastTimeSync, serverTimeOffset, syncNow,
                   apiErrors, apiExchange, apiBackoffs, apiOutcome>>
    /\ UNCHANGED <<now, websocketRequests, backoffDelay, pc, admittedWs>>
    /\ UNCHANGED <<smVars, wsVars, bmVars>>

\* await this.publicExchange.fetchTime() settles: a server time, nothing, or a
\* rejection, which syncServerTime catches; requestFunc is called next
ApiFetchTime(res, skew) ==
    /\ apiPc.at = "fetchTime"
    /\ IF res = "time"
       THEN /\ serverTimeOffset' = (now + skew) - syncNow
            /\ lastTimeSync' = syncNow
       ELSE UNCHANGED <<serverTimeOffset, lastTimeSync>>
    /\ apiPc' = [at |-> "request", wakeAt |-> 0]
    /\ UNCHANGED <<slotAttempt, fetchIssued, syncPc>>
    /\ UNCHANGED <<apiConfig, parentLimiter, apiCall, attempt, syncNow,
                   apiErrors, apiExchange, apiBackoffs, apiOutcome>>
    /\ UNCHANGED <<rlVars, smVars, wsVars, bmVars>>

NextAttemptSkipsSlot ==
    /\ attempt' = attempt + 1
    /\ apiPc' = [at |-> "request", wakeAt |-> 0]
    /\ UNCHANGED apiOutcome

\* the end of an attempt that failed and was not the last: the loop goes on
NextAttempt ==
    /\ attempt' = attempt + 1
    /\ apiPc' = [at |-> "slot", wakeAt |-> 0]
    /\ UNCHANGED apiOutcome

\* makeRequest leaves with an error
Raise(e) ==
    /\ apiOutcome' = <<[status |-> "raised", error |-> e]>>
    /\ apiPc' = ApiIdle
    /\ UNCHANGED attempt

\* await requestFunc() settles
ApiRequest(outcome) ==
    /\ apiPc.at = "request"
    /\ outcome \in RequestOutcomes(apiCall)
    /\ apiExchange' = IF outcome = "config" THEN apiExchange ELSE apiExchange + 1
    /\ IF outcome = "ok"
       THEN /\ backoffDelay' = BackoffFloor
            /\ apiOutcome' = <<[status |-> "returned", error |-> Error("none", 0)]>>
            /\ apiPc' = ApiIdle
            /\ UNCHANGED <<attempt, apiErrors>>
       ELSE LET e == Error(outcome, attempt) IN
            /\ apiErrors' = Append(apiErrors, e)
            /\ UNCHANGED backoffDelay
            /\ IF IsRateLimit(e)
               THEN /\ apiPc' = [at |-> "backoff", wakeAt |-> now + backoffDelay]
                    /\ UNCHANGED <<attempt, apiOutcome>>
               ELSE IF attempt = retries THEN Raise(e) ELSE NextAttempt
    /\ UNCHANGED <<slotAttempt, fetchIssued, syncPc>>
    /\ UNCHANGED <<apiConfig, parentLimiter, apiCall, lastTimeSync, serverTimeOffset, syncNow, apiBackoffs>>
    /\ UNCHANGED <<now, httpRequests, websocketRequests, pc, admittedHttp, admittedWs>>
    /\ UNCHANGED <<smVars, wsVars, bmVars>>

\* await this.rateLimiter.handleRateLimitError() settles: the delay is doubled,
\* then the last attempt raises and any other attempt continues the loop
ApiBackoffDone ==
    /\ apiPc.at = "backoff"
    /\ now >= apiPc.wakeAt
    /\ backoffDelay' = NextBackoff(backoffDelay)
    /\ apiBackoffs' = apiBackoffs + 1
    /\ IF attempt = retries THEN Raise(RetryLimitError) ELSE NextAttempt
    /\ UNCHANGED <<slotAttempt, fetchIssued, syncPc>>
    /\ UNCHANGED <<apiConfig, parentLimiter, apiCall, lastTimeSync, serverTimeOffset, syncNow,
                   apiErrors, apiExchange>>
    /\ UNCHANGED <<now, httpRequests, websocketRequests, pc, admittedHttp, admittedWs>>
    /\ UNCHANGED <<smVars, wsVars, bmVars>>

\* the caller has taken the result or the error of the call
ApiDone ==
    /\ apiCall # "none"
    /\ apiOutcome # <<>>
    /\ apiCall' = "none"
    /\ apiErrors' = <<>>
    /\ apiExchange' = 0
    /\ apiBackoffs' = 0
    /\ apiOutcome' = <<>>
    /\ attempt' = 1
    /\ slotAttempt' = 0
    /\ UNCHANGED <<apiConfig, parentLimiter, apiPc, lastTimeSync, serverTimeOffset, syncNow,
                   fetchIssued, syncPc>>
    /\ UNCHANGED <<rlVars, smVars, wsVars, bmVars>>

\* time passes for the gateway
TickApi ==
    /\ now + ClockStep <= MaxApiTime
    /\ now' = now + ClockStep
    /\ admittedHttp' = Purge(admittedHttp, now')
    /\ admittedWs' = Purge(admittedWs, now')
    /\ UNCHANGED <<httpRequests, websocketRequests, backoffDelay, pc>>
    /\ UNCHANGED <<smVars, wsVars, apiVars, bmVars>>

InitApi ==
    /\ RLInitial
    /\ BMInitial
    /\ SMInitial(DefaultConfig)
    /\ WSInitial(PublicClient)
    /\ \E hasKeys \in BOOLEAN : ApiInitial(hasKeys)

NextApi ==
    \/ \E op \in Ops : ApiCall(op)
    \/ ApiSlot
    \/ ApiSyncSlot
    \/ \E res \in {"time", "nothing", "throw"}, skew \in ServerSkews : ApiFetchTime(res, skew)
    \/ \E outcome \in {"ok", "ratelimit", "other", "auth", "config"} : ApiRequest(outcome)
    \/ ApiBackoffDone
    \/ ApiDone
    \/ TickApi

SpecApi == InitApi /\ [][NextApi]_vars


(***************************************************************************)
(* Claims about the two channels of the RateLimiter                        *)
(***************************************************************************)
\* the timestamps of a window that are younger than windowMs
Young(reqs) == {i \in DOMAIN reqs : now - reqs[i] < windowMs}

\* this step is a pass of caller c through waitForHttpSlot: it admits the
\* call or leaves it suspended on the HTTP channel
HttpPass(c) ==
    /\ pc[c].op \in {"idle", "waitHttp"}
    /\ \/ pc'[c].op = "waitHttp" /\ pc'[c] # pc[c]
       \/ Len(admittedHttp') = Len(admittedHttp) + 1 /\ pc'[c].op = "idle"

\* the same for waitForWebSocketSlot
WsPass(c) ==
    /\ pc[c].op \in {"idle", "waitWs"}
    /\ \/ pc'[c].op = "waitWs" /\ pc'[c] # pc[c]
       \/ Len(admittedWs') = Len(admittedWs) + 1 /\ pc'[c].op = "idle"

\* C16: the two channels of one RateLimiter are independent.  A pass through
\* waitForHttpSlot leaves the WebSocket window and the backoff delay as they
\* were, and it suspends the call exactly when the HTTP window itself holds
\* maxHttpRequests young timestamps, however full the WebSocket window is; and
\* the same with the channels exchanged.
C16_ChannelsIndependent ==
    [][ \A c \in Callers :
          /\ HttpPass(c) =>
                /\ websocketRequests' = websocketRequests
                /\ backoffDelay' = backoffDelay
                /\ pc'[c].op = "waitHttp" <=>
                       Cardinality(Young(httpRequests)) >= maxHttpRequests
          /\ WsPass(c) =>
                /\ httpRequests' = httpRequests
                /\ backoffDelay' = backoffDelay
                /\ pc'[c].op = "waitWs" <=>
                       Cardinality(Young(websocketRequests)) >= maxWebsocketRequests
      ]_vars

\* the HTTP window was filled at this instant and a caller is suspended on
\* it, while a WebSocket call was admitted at the same instant
C16_Witness ==
    /\ \E c \in Callers :
          /\ pc[c].op = "waitHttp"
          /\ pc[c].wakeAt = now + windowMs + SafetyBufferMs
    /\ Cardinality(Young(httpRequests)) >= maxHttpRequests
    /\ \E i \in DOMAIN websocketRequests : websocketRequests[i] = now
    /\ \E i \in DOMAIN admittedWs : admittedWs[i] = now

\* the oldest of the timestamps of a window that are younger than windowMs
OldestYoung(reqs) ==
    CHOOSE t \in {reqs[i] : i \in Young(reqs)} : \A i \in Young(reqs) : t <= reqs[i]

\* C18: a call that finds max timestamps younger than windowMs in its
\* channel's window is not admitted: it is suspended for windowMs - (now -
\* oldest) + 1000 ms, that is until oldest + windowMs + 1000, and it is not
\* admitted before that instant, when it re-checks the window.
C18_SuspendedUntilOldestExpires ==
    [][ \A c \in Callers :
          /\ (HttpPass(c) /\ Cardinality(Young(httpRequests)) >= maxHttpRequests) =>
                /\ admittedHttp' = admittedHttp
                /\ pc'[c] = [op |-> "waitHttp",
                             wakeAt |-> now + (windowMs - (now - OldestYoung(httpRequests))
                                               + SafetyBufferMs)]
          /\ (WsPass(c) /\ Cardinality(Young(websocketRequests)) >= maxWebsocketRequests) =>
                /\ admittedWs' = admittedWs
                /\ pc'[c] = [op |-> "waitWs",
                             wakeAt |-> now + (windowMs - (now - OldestYoung(websocketRequests))
                                               + SafetyBufferMs)]
          /\ (pc[c].op \in {"waitHttp", "waitWs"} /\ pc'[c] # pc[c]) =>
                now >= pc[c].wakeAt
      ]_vars

\* a call suspended on a window that was full has slept until the oldest
\* timestamp plus windowMs plus the buffer, and the window has emptied: its
\* re-check is due
C18_Witness ==
    \E c \in Callers :
        /\ pc[c].op = "waitHttp"
        /\ pc[c].wakeAt = now
        /\ now >= windowMs + SafetyBufferMs
        /\ Young(httpRequests) = {}

\* C17: with a channel maximum of at least 1 and time advancing, every
\* waitForHttpSlot / waitForWebSocketSlot call that was suspended is admitted
\* in the end, whatever the other callers do.
C17_EveryCallReturns ==
    \A c \in Callers : (pc[c].op \in {"waitHttp", "waitWs"}) ~> (pc[c].op = "idle")

\* C27: whatever admissions, recorded activity and backoff failures came
\* before it, right after reset() getHttpRequestsCount() and
\* getWebSocketRequestsCount() both return 0 and the backoff delay is at its
\* floor.
C27_ResetClears ==
    [][Reset =>
        /\ Len(Purge(httpRequests', now')) = 0
        /\ Len(Purge(websocketRequests', now')) = 0
        /\ backoffDelay' = BackoffFloor]_vars

\* reset() has run while both windows were full of timestamps too young to be
\* purged: a call is still suspended on each channel, for longer than the
\* buffer, and both windows are empty
C27_Witness ==
    \E c, d \in Callers :
        /\ pc[c].op = "waitHttp"
        /\ pc[d].op = "waitWs"
        /\ now < pc[c].wakeAt - SafetyBufferMs
        /\ now < pc[d].wakeAt - SafetyBufferMs
        /\ httpRequests = <<>>
        /\ websocketRequests = <<>>
        /\ backoffDelay = BackoffFloor

(***************************************************************************)
(* Claims about the gateway                                                *)
(***************************************************************************)
\* the gateway call in progress has ended by raising an error
ApiRaised == apiOutcome # <<>> /\ apiOutcome[1].status = "raised"

\* the number of times requestFunc ran in this call: every run but a
\* successful one leaves its error
Executions ==
    Len(apiErrors) + (IF apiOutcome # <<>> /\ apiOutcome[1].status = "returned" THEN 1 ELSE 0)

\* every attempt of this call failed, each with a rate-limit error
AllRateLimited ==
    /\ apiErrors # <<>>
    /\ \A i \in 1..Len(apiErrors) : IsRateLimit(apiErrors[i])

\* C13: a request whose every attempt fails with a rate-limit error is backed
\* off after each failure, is executed at most three times, and ends by raising
\* the last error the exchange call returned.
C13_RaisesLastExchangeError ==
    (ApiRaised /\ AllRateLimited) =>
        /\ apiBackoffs = Len(apiErrors)
        /\ Executions <= 3
        /\ apiOutcome[1].error = apiErrors[Len(apiErrors)]

\* C14: a request that fails with an error not classified as a rate-limit error
\* is executed at most twice in all.
C14_OtherErrorsAtMostTwice ==
    (apiErrors # <<>> /\ \A i \in 1..Len(apiErrors) : ~IsRateLimit(apiErrors[i])) =>
        Executions <= 2

\* C15: a private operation called without API credentials fails at once with a
\* configuration error: its request is not retried, no exchange method is
\* called and no backoff is waited on.
C15_NoCredentialsFailsFast ==
    (apiCall \in PrivateOps /\ ~apiConfig.hasKeys) =>
        /\ Executions <= 1
        /\ apiExchange = 0
        /\ apiBackoffs = 0
        /\ apiPc.at # "backoff"
        /\ apiOutcome # <<>> =>
               /\ apiOutcome[1].status = "raised"
               /\ apiOutcome[1].error.kind = "config"


\* requestFunc runs: an exchange method is invoked
ExchangeCalled == apiExchange' = apiExchange + 1

\* waitForHttpSlot() of makeRequest returns
SlotReturned == slotAttempt' # slotAttempt /\ slotAttempt' # 0

\* makeRequest returns a result
ResultReturned ==
    /\ apiOutcome = <<>>
    /\ apiOutcome' # <<>>
    /\ apiOutcome'[1].status = "returned"

\* C28: in makeRequest the exchange is not called in an attempt unless
\* waitForHttpSlot() returned in that same attempt before, which put the
\* timestamp of the admission in the HTTP window; and when the call succeeds
\* the backoff delay is at its floor as the result is returned.
C28_SlotBeforeExchange ==
    [][/\ ExchangeCalled => slotAttempt = attempt
       /\ SlotReturned =>
             /\ slotAttempt' = attempt
             /\ \E i \in DOMAIN httpRequests' : httpRequests'[i] = now
       /\ ResultReturned => backoffDelay' = BackoffFloor]_vars

\* a call has returned a result in its third attempt, after two rate-limit
\* errors had doubled the backoff delay twice: every attempt took its slot and
\* called the exchange, and the delay is at the floor again
C28_Witness ==
    /\ apiOutcome # <<>>
    /\ apiOutcome[1].status = "returned"
    /\ attempt = retries
    /\ slotAttempt = retries
    /\ apiExchange = retries
    /\ apiBackoffs = retries - 1
    /\ backoffDelay = BackoffFloor

(***************************************************************************)
(* BybitApi: gateway operations that run at the same time                  *)
(*                                                                         *)
(* Each caller runs attempts of makeRequest on the one gateway: its slot,  *)
(* syncServerTime, requestFunc.  The operations share the rate limiter and *)
(* lastTimeSync, and each has its own `now` of syncServerTime.             *)
(***************************************************************************)
\* one pass through waitForHttpSlot() of caller c: suspended where it is, or
\* admitted and on to `after`
SyncSlotPass(c, after) ==
    LET kept == Purge(httpRequests, now) IN
    IF SlotFull(kept, maxHttpRequests)
    THEN /\ httpRequests' = kept
         /\ syncPc' = [syncPc EXCEPT ![c].wakeAt = now + WaitTime(kept, now)]
         /\ UNCHANGED admittedHttp
    ELSE /\ httpRequests' = Append(kept, now)
         /\ syncPc' = [syncPc EXCEPT ![c] = after]
         /\ admittedHttp' = Append(Purge(admittedHttp, now), now)

\* a gateway operation calls makeRequest, or makeRequest starts another attempt
OpAttempt(c) ==
    /\ syncPc[c].at = "idle"
    /\ syncPc' = [syncPc EXCEPT ![c] = [at |-> "slot", syncNow |-> 0, wakeAt |-> 0]]
    /\ UNCHANGED <<apiConfig, parentLimiter, apiCall, apiPc, attempt, lastTimeSync,
                   serverTimeOffset, syncNow, apiErrors, apiExchange, apiBackoffs,
                   slotAttempt, fetchIssued, apiOutcome>>
    /\ UNCHANGED <<rlVars, smVars, wsVars, bmVars>>

\* await this.rateLimiter.waitForHttpSlot() of makeRequest; once admitted,
\* syncServerTime() reads the clock and returns at once if the last sync is
\* recent
OpSlot(c) ==
    /\ syncPc[c].at = "slot"
    /\ now >= syncPc[c].wakeAt
    /\ SyncSlotPass(c, [at |-> IF now - lastTimeSync < SyncIntervalMs
                                THEN "request" ELSE "syncSlot",
                         syncNow |-> now, wakeAt |-> 0])
    /\ UNCHANGED <<apiConfig, parentLimiter, apiCall, apiPc, attempt, lastTimeSync,
                   serverTimeOffset, syncNow, apiErrors, apiExchange, apiBackoffs,
                   slotAttempt, fetchIssued, apiOutcome>>
    /\ UNCHANGED <<now, websocketRequests, backoffDelay, pc, admittedWs>>
    /\ UNCHANGED <<smVars, wsVars, bmVars>>

\* await this.rateLimiter.waitForHttpSlot() of syncServerTime; once admitted,
\* the fetchTime request goes out
OpSyncSlot(c) ==
    /\ syncPc[c].at = "syncSlot"
    /\ now >= syncPc[c].wakeAt
    /\ SyncSlotPass(c, [syncPc[c] EXCEPT !.at = "fetchTime", !.wakeAt = 0])
    /\ fetchIssued' = IF syncPc'[c].at = "fetchTime" THEN Issue(fetchIssued) ELSE fetchIssued
    /\ UNCHANGED <<apiConfig, parentLimiter, apiCall, apiPc, attempt, lastTimeSync,
                   serverTimeOffset, syncNow, apiErrors, apiExchange, apiBackoffs,
                   slotAttempt, apiOutcome>>
    /\ UNCHANGED <<now, websocketRequests, backoffDelay, pc, admittedWs>>
    /\ UNCHANGED <<smVars, wsVars, bmVars>>

\* await this.publicExchange.fetchTime() of caller c settles
OpFetchTime(c, res, skew) ==
    /\ syncPc[c].at = "fetchTime"
    /\ IF res = "time"
       THEN /\ serverTimeOffset' = (now + skew) - syncPc[c].syncNow
            /\ lastTimeSync' = syncPc[c].syncNow
       ELSE UNCHANGED <<serverTimeOffset, lastTimeSync>>
    /\ syncPc' = [syncPc EXCEPT ![c].at = "request"]
    /\ UNCHANGED <<apiConfig, parentLimiter, apiCall, apiPc, attempt, syncNow,
                   apiErrors, apiExchange, apiBackoffs, slotAttempt, fetchIssued,
                   apiOutcome>>
    /\ UNCHANGED <<rlVars, smVars, wsVars, bmVars>>

\* await requestFunc() of caller c settles: the attempt is over
OpRequest(c, outcome) ==
    /\ syncPc[c].at = "request"
    /\ backoffDelay' = IF outcome = "ok" THEN BackoffFloor ELSE backoffDelay
    /\ syncPc' = [syncPc EXCEPT ![c] = SyncIdle]
    /\ UNCHANGED <<apiConfig, parentLimiter, apiCall, apiPc, attempt, lastTimeSync,
                   serverTimeOffset, syncNow, apiErrors, apiExchange, apiBackoffs,
                   slotAttempt, fetchIssued, apiOutcome>>
    /\ UNCHANGED <<now, httpRequests, websocketRequests, pc, admittedHttp, admittedWs>>
    /\ UNCHANGED <<smVars, wsVars, bmVars>>

\* operations that overlap, on an exchange that answers every fetchTime
NextSync ==
    \/ \E c \in Callers : OpAttempt(c)
    \/ \E c \in Callers : OpSlot(c)
    \/ \E c \in Callers : OpSyncSlot(c)
    \/ \E c \in Callers, skew \in ServerSkews : OpFetchTime(c, "time", skew)
    \/ \E c \in Callers, outcome \in {"ok", "other"} : OpRequest(c, outcome)
    \/ TickApi

SpecSync == Init /\ [][NextSync]_vars

\* C29: however the gateway operations overlap, two fetchTime requests of
\* syncServerTime are never issued less than five minutes apart.
C29_OneSyncPerInterval ==
    Len(fetchIssued) = 2 => fetchIssued[2] - fetchIssued[1] >= SyncIntervalMs

(***************************************************************************)
(* BybitApi.createSubAccountInstance                                       *)
(***************************************************************************)
\* the limiter of a gateway that has been in use
UsedLimiter ==
    [httpRequests |-> <<0>>, websocketRequests |-> <<0>>, backoffDelay |-> 2 * BackoffFloor]

\* bybitApi.createSubAccountInstance(SubAccountKey, secret) has returned: the
\* state is that of the minted gateway, a new BybitApi() whose exchange was
\* replaced by one built with the sub-account's key, and of its private socket
\* client, new BybitWebSocket(true).  The process configuration is untouched.
InitSub ==
    /\ RLInitial
    /\ BMInitial
    /\ SMInitial(DefaultConfig)
    /\ \E hasKeys \in BOOLEAN :
          /\ WSInitial([isPrivate |-> TRUE, hasKeys |-> hasKeys])
          /\ apiConfig = [hasKeys |-> hasKeys, exchangeKey |-> SubAccountKey]
    /\ parentLimiter = UsedLimiter
    /\ apiCall = "none"
    /\ apiPc = ApiIdle
    /\ attempt = 1
    /\ lastTimeSync = 0 - SyncIntervalMs
    /\ serverTimeOffset = 0
    /\ syncNow = 0
    /\ apiErrors = <<>>
    /\ apiExchange = 0
    /\ apiBackoffs = 0
    /\ slotAttempt = 0
    /\ fetchIssued = <<>>
    /\ syncPc = [c \in Callers |-> SyncIdle]
    /\ apiOutcome = <<>>

\* REST calls through the minted gateway, and the life of its private socket
NextSub ==
    \/ \E op \in {"fetchBalance"} : ApiCall(op)
    \/ ApiSlot
    \/ ApiSyncSlot
    \/ \E res \in {"time", "throw"} : ApiFetchTime(res, 0)
    \/ \E outcome \in {"ok", "ratelimit", "config"} : ApiRequest(outcome)
    \/ ApiBackoffDone
    \/ ApiDone
    \/ WsConnect(FALSE)
    \/ \E s \in 1..MaxSockets : SocketOpen(s)
    \/ TickApi

SpecSub == InitSub /\ [][NextSub]_vars

\* C25: a gateway minted by createSubAccountInstance(apiKey, secret) is scoped
\* to the sub-account and independent of its parent: its exchange signs with
\* the sub-account's key, every auth frame of its private socket carries the
\* sub-account's key, never the parent's, and no call through it changes the
\* parent's rate windows or backoff delay.
C25_SubAccountScoped ==
    /\ [](apiConfig.exchangeKey = SubAccountKey)
    /\ [](\A i \in DOMAIN wire :
              wire[i].frame.op = "auth" => wire[i].frame.key = SubAccountKey)
    /\ [][parentLimiter' = parentLimiter]_vars

(***************************************************************************)
(* BotManager: startBot, stopBot, pauseBot and handleBotError.  Every      *)
(* await is a point where another call or a timer callback can run.  The   *)
(* rows of the database are fixed: createBot and deleteBot are left out.   *)
(***************************************************************************)
BmEnter(p, op, id) ==
    bmPc' = [bmPc EXCEPT ![p] = [op |-> op, bot |-> id, at |-> "getTradingBotById"]]

BmGoto(p, at) == bmPc' = [bmPc EXCEPT ![p].at = at]

\* the call returns or throws
BmReturn(p) == bmPc' = [bmPc EXCEPT ![p] = BmIdle]

BmOthers == UNCHANGED <<rlVars, smVars, wsVars, apiVars>>

\* the handle setInterval returns: one that no running timer has
FreeHandles == {h \in 1..MaxHandles : liveIntervals[h] = "none"}
NewHandle == CHOOSE h \in FreeHandles : \A g \in FreeHandles : h <= g

\* const interval = this.intervals.get(botId); if (interval) clearInterval(interval)
ClearInterval(id) ==
    IF intervals[id] # 0
    THEN [liveIntervals EXCEPT ![intervals[id]] = "none"]
    ELSE liveIntervals

\* startBot(botId), up to `await getTradingBotById(botId)`
StartBot(p, id) ==
    /\ bmPc[p] = BmIdle
    /\ BmEnter(p, "start", id)
    /\ UNCHANGED <<activeBots, intervals, liveIntervals, botStatus>>
    /\ BmOthers

\* startBot: the row is back; the two checks, new BotInstance(bot), and
\* `await botInstance.initialize()`, which throws for an unsupported strategy
StartBotFound(p, initialized) ==
    /\ bmPc[p].op = "start" /\ bmPc[p].at = "getTradingBotById"
    /\ IF bmPc[p].bot \notin StoredBots \/ bmPc[p].bot \in activeBots \/ ~initialized
       THEN BmReturn(p)
       ELSE BmGoto(p, "initialize")
    /\ UNCHANGED <<activeBots, intervals, liveIntervals, botStatus>>
    /\ BmOthers

\* startBot: this.activeBots.set(botId, botInstance), up to `await updateTradingBot(...)`
StartBotInitialized(p) ==
    /\ bmPc[p].op = "start" /\ bmPc[p].at = "initialize"
    /\ activeBots' = activeBots \cup {bmPc[p].bot}
    /\ BmGoto(p, "updateTradingBot")
    /\ UNCHANGED <<intervals, liveIntervals, botStatus>>
    /\ BmOthers

\* startBot: the status is written (or the update threw); setInterval and
\* this.intervals.set(botId, interval)
StartBotUpdated(p, updated) ==
    /\ bmPc[p].op = "start" /\ bmPc[p].at = "updateTradingBot"
    /\ IF updated
       THEN /\ FreeHandles # {}
            /\ botStatus' = [botStatus EXCEPT ![bmPc[p].bot] = "active"]
            /\ liveIntervals' = [liveIntervals EXCEPT ![NewHandle] = bmPc[p].bot]
            /\ intervals' = [intervals EXCEPT ![bmPc[p].bot] = NewHandle]
       ELSE UNCHANGED <<botStatus, liveIntervals, intervals>>
    /\ BmReturn(p)
    /\ UNCHANGED activeBots
    /\ BmOthers

\* stopBot(botId), up to `await getTradingBotById(botId)`
StopBot(p, id) ==
    /\ bmPc[p] = BmIdle
    /\ BmEnter(p, "stop", id)
    /\ UNCHANGED <<activeBots, intervals, liveIntervals, botStatus>>
    /\ BmOthers

\* stopBot, also when handleBotError called it: the row is back; the interval
\* is cleared and forgotten; with an instance, up to `await botInstance.cleanup()`
StopBotFound(p) ==
    /\ bmPc[p].op \in {"stop", "error"} /\ bmPc[p].at = "getTradingBotById"
    /\ IF bmPc[p].bot \notin StoredBots
       THEN /\ BmReturn(p)
            /\ UNCHANGED <<intervals, liveIntervals>>
       ELSE /\ liveIntervals' = ClearInterval(bmPc[p].bot)
            /\ intervals' = [intervals EXCEPT ![bmPc[p].bot] = 0]
            /\ IF bmPc[p].bot \in activeBots
               THEN BmGoto(p, "cleanup")
               ELSE BmGoto(p, "updateTradingBot")
    /\ UNCHANGED <<activeBots, botStatus>>
    /\ BmOthers

\* stopBot: this.activeBots.delete(botId), up to `await updateTradingBot(...)`
StopBotCleaned(p) ==
    /\ bmPc[p].op \in {"stop", "error"} /\ bmPc[p].at = "cleanup"
    /\ activeBots' = activeBots \ {bmPc[p].bot}
    /\ BmGoto(p, "updateTradingBot")
    /\ UNCHANGED <<intervals, liveIntervals, botStatus>>
    /\ BmOthers

\* stopBot: the status is written (or the update threw).  handleBotError goes
\* on to its own `await updateTradingBot(botId, { status: 'error' })`.
StopBotUpdated(p, updated) ==
    /\ bmPc[p].op \in {"stop", "error"} /\ bmPc[p].at = "updateTradingBot"
    /\ botStatus' = IF updated THEN [botStatus EXCEPT ![bmPc[p].bot] = "stopped"] ELSE botStatus
    /\ IF updated /\ bmPc[p].op = "error"
       THEN BmGoto(p, "updateError")
       ELSE BmReturn(p)
    /\ UNCHANGED <<activeBots, intervals, liveIntervals>>
    /\ BmOthers

\* pauseBot(botId), up to `await getTradingBotById(botId)`
PauseBot(p, id) ==
    /\ bmPc[p] = BmIdle
    /\ BmEnter(p, "pause", id)
    /\ UNCHANGED <<activeBots, intervals, liveIntervals, botStatus>>
    /\ BmOthers

\* pauseBot: the row is back; the interval is cleared and forgotten, the
\* instance stays
PauseBotFound(p) ==
    /\ bmPc[p].op = "pause" /\ bmPc[p].at = "getTradingBotById"
    /\ IF bmPc[p].bot \notin StoredBots
       THEN /\ BmReturn(p)
            /\ UNCHANGED <<intervals, liveIntervals>>
       ELSE /\ liveIntervals' = ClearInterval(bmPc[p].bot)
            /\ intervals' = [intervals EXCEPT ![bmPc[p].bot] = 0]
            /\ BmGoto(p, "updateTradingBot")
    /\ UNCHANGED <<activeBots, botStatus>>
    /\ BmOthers

\* pauseBot: the status is written (or the update threw)
PauseBotUpdated(p, updated) ==
    /\ bmPc[p].op = "pause" /\ bmPc[p].at = "updateTradingBot"
    /\ botStatus' = IF updated THEN [botStatus EXCEPT ![bmPc[p].bot] = "paused"] ELSE botStatus
    /\ BmReturn(p)
    /\ UNCHANGED <<activeBots, intervals, liveIntervals>>
    /\ BmOthers

\* the callback of a running timer: executeTradingCycle() threw, and
\* handleBotError(botId) calls stopBot(botId) with the id the timer was made for
CycleError(p, h) ==
    /\ bmPc[p] = BmIdle
    /\ liveIntervals[h] # "none"
    /\ BmEnter(p, "error", liveIntervals[h])
    /\ UNCHANGED <<activeBots, intervals, liveIntervals, botStatus>>
    /\ BmOthers

\* handleBotError: the status 'error' is written (or the update threw)
HandleBotErrorUpdated(p, updated) ==
    /\ bmPc[p].op = "error" /\ bmPc[p].at = "updateError"
    /\ botStatus' = IF updated THEN [botStatus EXCEPT ![bmPc[p].bot] = "error"] ELSE botStatus
    /\ BmReturn(p)
    /\ UNCHANGED <<activeBots, intervals, liveIntervals>>
    /\ BmOthers

NextBots ==
    \/ \E p \in BotCalls, id \in BotIds : StartBot(p, id)
    \/ \E p \in BotCalls, initialized \in BOOLEAN : StartBotFound(p, initialized)
    \/ \E p \in BotCalls : StartBotInitialized(p)
    \/ \E p \in BotCalls, updated \in BOOLEAN : StartBotUpdated(p, updated)
    \/ \E p \in BotCalls, id \in BotIds : StopBot(p, id)
    \/ \E p \in BotCalls : StopBotFound(p)
    \/ \E p \in BotCalls : StopBotCleaned(p)
    \/ \E p \in BotCalls, updated \in BOOLEAN : StopBotUpdated(p, updated)
    \/ \E p \in BotCalls, id \in BotIds : PauseBot(p, id)
    \/ \E p \in BotCalls : PauseBotFound(p)
    \/ \E p \in BotCalls, updated \in BOOLEAN : PauseBotUpdated(p, updated)
    \/ \E p \in BotCalls, h \in 1..MaxHandles : CycleError(p, h)
    \/ \E p \in BotCalls, updated \in BOOLEAN : HandleBotErrorUpdated(p, updated)

SpecBots == Init /\ [][NextBots]_vars

\* the running trading-cycle timers of a bot
TimersOf(id) == {h \in 1..MaxHandles : liveIntervals[h] = id}

\* C40: under any interleaving of startBot, pauseBot, stopBot and cycle
\* errors, a bot id has at most one running trading-cycle timer, and only a
\* bot id in the active-bot map has one.
C40_OneTimerOnlyIfActive ==
    \A id \in StoredBots :
        /\ Cardinality(TimersOf(id)) <= 1
        /\ TimersOf(id) # {} => id \in activeBots

====
